---- MODULE Spec2Model ----
(***************************************************************************)
(* A model of OpenDXI's sprint store (sprint_store.py), its GitHub         *)
(* pagination driver (github_service.fetch_all_pages), its orchestrator    *)
(* and aggregation (fetch_all_metrics, process_paginated_data), its        *)
(* scoring (metrics_service.calculate_dxi_score), its cache-or-fetch       *)
(* coordinator (github_service.get_metrics_for_sprint) and the population  *)
(* tool (populate_sprints.fetch_sprint).                                   *)
(*                                                                         *)
(* Conventions                                                             *)
(*  - A Python value is a tree of nodes [tag, s, kids]; a JSON document is *)
(*    a tree of the same shape with JSON tags.  json.dumps / json.loads    *)
(*    convert between the two.                                             *)
(*  - A date "YYYY-MM-DD" is its day ordinal; the zero-padded ISO text the *)
(*    code compares lexicographically orders as the ordinals do.           *)
(*  - A sprint key is the sequence of its "_"-separated parts, so          *)
(*    "sprint_{start}_{end}" is <<"sprint", start, end>>.                  *)
(*  - A timestamp "YYYY-MM-DDTHH:00:00Z" is the count of its hours, written *)
(*    as text; its first ten characters are the day it lies in.            *)
(*  - A float is an exact fraction in lowest terms, written "n/d".         *)
(*  - time.time() is a clock that is read and advances with every read.    *)
(*    The timer fetch_sprint keeps for its log line is left out.           *)
(***************************************************************************)
EXTENDS Integers, Sequences, FiniteSets, TLC

VARIABLES
    tables,     \* the SQLite file: table name -> (sprint_key -> row)
    clock,      \* the wall clock read by time.time()
    caller,     \* the store's callers (OS processes): position and locals
    lastSaved,  \* history: sprint_key -> payload of the last committed save
    remote,     \* the remote API's behaviour during one fetch_all_pages call
    fp,         \* fetch_all_pages: position, locals, and the calls it made
    req,        \* the calls of get_metrics_for_sprint / fetch_sprint in progress
    job,        \* fetch_all_metrics: the remote's world, position and locals
    scoring,    \* the scoring engine: its input and what it returned
    sprintList  \* get_all_sprints: today's date, position and locals

storeVars == <<tables, clock, caller, lastSaved>>
pageVars == <<remote, fp>>
calcVars == <<job, scoring, sprintList>>
vars == <<tables, clock, caller, lastSaved, remote, fp, req,
          job, scoring, sprintList>>

-----------------------------------------------------------------------------
(* Bounds *)

MaxClock == 3
MaxRemotePages == 12
NodesPerPage == 2
MaxNumber == 2000

-----------------------------------------------------------------------------
(* Python values and JSON documents *)

Node(t, s, k) == [tag |-> t, s |-> s, kids |-> k]

PyNone == Node("None", "", <<>>)
PyStr(s) == Node("str", s, <<>>)
PyInt(n) == Node("int", ToString(n), <<>>)
PyFloat(s) == Node("float", s, <<>>)         \* s is the float's text
PyBool(b) == Node("bool", IF b THEN "True" ELSE "False", <<>>)
PyDate(s) == Node("date", s, <<>>)          \* a datetime.date object
PyList(k) == Node("list", "", k)
PyTuple(k) == Node("tuple", "", k)
KV(key, v) == Node("kv", key, <<v>>)         \* dict item, str key
KVInt(n, v) == Node("kv_int", ToString(n), <<v>>)     \* dict item, int key
KVTuple(key, v) == Node("kv_tuple", key, <<v>>)       \* dict item, tuple key
PyDict(items) == Node("dict", "", items)

\* A reference to a container the value lies in (d["self"] = d).
PyCycle == Node("cycle", "", <<>>)

\* The exceptions json.dumps raises: for a key it cannot encode, and for a
\* circular reference.
TypeError == Node("TypeError", "", <<>>)
ValueError == Node("ValueError", "", <<>>)

\* Python truthiness of a value (bool(x)).
Truthy(v) ==
    CASE v.tag = "None" -> FALSE
      [] v.tag \in {"list", "tuple", "dict"} -> v.kids # <<>>
      [] v.tag \in {"str"} -> v.s # ""
      [] v.tag = "bool" -> v.s = "True"
      [] v.tag \in {"int", "float"} -> v.s \notin {"0", "0/1"}
      [] OTHER -> TRUE

\* key in d
HasKey(d, key) ==
    \E i \in 1..Len(d.kids) : d.kids[i].tag = "kv" /\ d.kids[i].s = key

\* dict.get(key) with the default None.
DictGet(d, key) ==
    IF \E i \in 1..Len(d.kids) : d.kids[i].tag = "kv" /\ d.kids[i].s = key
    THEN LET i == CHOOSE j \in 1..Len(d.kids) :
                      d.kids[j].tag = "kv" /\ d.kids[j].s = key
         IN d.kids[i].kids[1]
    ELSE PyNone

\* dict.get(key, default)
DictGetOr(d, key, default) == IF HasKey(d, key) THEN DictGet(d, key) ELSE default

RECURSIVE json_dumps(_)
\* json.dumps(data, default=str): the JSON document, or the exception the
\* first item that cannot be written raises.
json_dumps(v) ==
    LET sub == [i \in 1..Len(v.kids) |-> json_dumps(v.kids[i])]
        failed == {i \in 1..Len(v.kids) : sub[i] \in {TypeError, ValueError}}
        bad == failed # {}
        raised == sub[CHOOSE i \in failed : \A j \in failed : i <= j]
    IN CASE v.tag = "None" -> Node("null", "", <<>>)
         [] v.tag = "str" -> Node("string", v.s, <<>>)
         [] v.tag = "int" -> Node("number", v.s, <<>>)
         [] v.tag = "float" -> Node("real", v.s, <<>>)
         [] v.tag = "bool" -> Node("boolean", v.s, <<>>)
         [] v.tag \in {"list", "tuple"} ->
                IF bad THEN raised ELSE Node("array", "", sub)
         [] v.tag = "dict" ->
                IF bad THEN raised ELSE Node("object", "", sub)
         [] v.tag \in {"kv", "kv_int"} ->
                IF bad THEN raised ELSE Node("member", v.s, sub)
         [] v.tag = "kv_tuple" -> TypeError
         [] v.tag = "cycle" -> ValueError
         [] OTHER -> Node("string", v.s, <<>>)     \* default=str

RECURSIVE json_loads(_)
\* json.loads(text) of a well-formed document.
json_loads(j) ==
    LET sub == [i \in 1..Len(j.kids) |-> json_loads(j.kids[i])]
    IN CASE j.tag = "null" -> PyNone
         [] j.tag = "string" -> Node("str", j.s, <<>>)
         [] j.tag = "number" -> Node("int", j.s, <<>>)
         [] j.tag = "real" -> Node("float", j.s, <<>>)
         [] j.tag = "boolean" -> Node("bool", j.s, <<>>)
         [] j.tag = "array" -> Node("list", "", sub)
         [] j.tag = "object" -> Node("dict", "", sub)
         [] j.tag = "member" -> Node("kv", j.s, sub)
         [] OTHER -> PyNone

RECURSIVE IsJson(_)
\* The value is made of JSON's own types only: None, str, numbers, lists and
\* dicts with str keys.
IsJson(v) ==
    /\ v.tag \in {"None", "str", "int", "float", "bool", "list", "dict", "kv"}
    /\ \A i \in 1..Len(v.kids) : IsJson(v.kids[i])

-----------------------------------------------------------------------------
(* The store: sprint_store.py *)

Callers == {"c1", "c2"}

TableNames == {"sprints", "sprint_cache"}
NoTables == [t \in {} |-> {}]
NoRows == [k \in {} |-> {}]

\* The rows of the current table (none while it does not exist).
Rows == IF "sprints" \in DOMAIN tables THEN tables["sprints"] ELSE NoRows

\* Mutant: the key without the end of the window.
get_sprint_key_start_only(sprint_start, sprint_end) ==
    <<"sprint", ToString(sprint_start)>>

get_sprint_key(sprint_start, sprint_end) ==
    <<"sprint", ToString(sprint_start), ToString(sprint_end)>>

Put(f, k, v) == [x \in DOMAIN f \cup {k} |-> IF x = k THEN v ELSE f[x]]
Drop(f, k) == [x \in DOMAIN f \ {k} |-> f[x]]

\* conn counts the connections the caller holds open, opened those its
\* current call has opened.
Idle == [pc |-> "idle", op |-> "", key |-> <<>>, data |-> PyNone, now |-> 0,
         json |-> PyNone, ret |-> PyNone, err |-> FALSE, conn |-> 0,
         opened |-> 0]

\* No fetch_all_metrics, scoring or get_all_sprints call in progress.
NoJob == [pc |-> "off"]
NoScoring == [pc |-> "off"]
NoSprintList == [pc |-> "off"]
CalcIdle == job = NoJob /\ scoring = NoScoring /\ sprintList = NoSprintList

\* No call of get_metrics_for_sprint / fetch_sprint in progress.
NoCall == [fn |-> "", start |-> 0, end |-> 0, force |-> FALSE, pc |-> "idle",
           metrics |-> PyNone, log |-> <<>>, fetches |-> 0, ret |-> PyNone]

RECURSIVE SumTo(_, _)
SumTo(f, n) == IF n = 0 THEN 0 ELSE f[n] + SumTo(f, n - 1)

RECURSIVE TextLen(_)
\* LENGTH(data_json): the characters json.dumps writes with its default
\* separators ", " and ": " (ASCII text without escapes).
TextLen(j) ==
    LET n == Len(j.kids)
        sub == [i \in 1..n |-> TextLen(j.kids[i])]
        seps == IF n = 0 THEN 0 ELSE 2 * (n - 1)
    IN CASE j.tag = "null" -> 4
         [] j.tag = "string" -> Len(j.s) + 2
         [] j.tag \in {"number", "real"} -> Len(j.s)
         [] j.tag = "boolean" -> IF j.s = "True" THEN 4 ELSE 5
         [] j.tag \in {"array", "object"} -> 2 + SumTo(sub, n) + seps
         [] j.tag = "member" -> Len(j.s) + 2 + 2 + sub[1]
         [] OTHER -> 0

\* sprint_key.split("_") and the two parts kept as columns.
KeyStart(sprint_key) == IF Len(sprint_key) >= 2 THEN sprint_key[2] ELSE ""
KeyEnd(sprint_key) == IF Len(sprint_key) >= 3 THEN sprint_key[3] ELSE ""

\* Mutant: INSERT OR IGNORE, which keeps the row a key already has.
InsertOrIgnore(rows, sprint_key, data_json, now) ==
    IF sprint_key \in DOMAIN rows THEN rows
    ELSE Put(rows, sprint_key,
             [sprint_start |-> KeyStart(sprint_key),
              sprint_end |-> KeyEnd(sprint_key),
              data_json |-> data_json, created_at |-> now, updated_at |-> now])

\* Mutant: REPLACE without the COALESCE on created_at.
InsertOrReplaceNoCoalesce(rows, sprint_key, data_json, now) ==
    Put(rows, sprint_key,
        [sprint_start |-> KeyStart(sprint_key),
         sprint_end |-> KeyEnd(sprint_key),
         data_json |-> data_json, created_at |-> now, updated_at |-> now])

\* INSERT OR REPLACE INTO sprints ... COALESCE((SELECT created_at ...), now), now
InsertOrReplace(rows, sprint_key, data_json, now) ==
    Put(rows, sprint_key,
        [sprint_start |-> KeyStart(sprint_key),
         sprint_end |-> KeyEnd(sprint_key),
         data_json |-> data_json,
         created_at |-> IF sprint_key \in DOMAIN rows
                        THEN rows[sprint_key].created_at ELSE now,
         updated_at |-> now])

\* Mutant: DELETE without the WHERE clause.
DeleteFromAll(rows, sprint_key) == NoRows

\* DELETE FROM sprints WHERE sprint_key = ?
DeleteFrom(rows, sprint_key) == Drop(rows, sprint_key)

\* SELECT data_json FROM sprints WHERE sprint_key = ?, then json.loads.
SelectPayload(rows, sprint_key) ==
    IF sprint_key \in DOMAIN rows
    THEN json_loads(rows[sprint_key].data_json)
    ELSE PyNone

\* _init_db: the tables it leaves, or "raise" when ALTER TABLE ... RENAME
\* finds the name sprints taken.
InitDbTables(tbls) ==
    LET renamed == IF "sprint_cache" \in DOMAIN tbls
                   THEN [t \in {"sprints"} |-> tbls["sprint_cache"]]
                   ELSE tbls
    IN IF "sprints" \in DOMAIN renamed
       THEN renamed
       ELSE [t \in DOMAIN renamed \cup {"sprints"} |->
                IF t = "sprints" THEN NoRows ELSE renamed[t]]

InitDbRaises(tbls) == {"sprint_cache", "sprints"} \subseteq DOMAIN tbls

\* _init_db(), run once by a process when it starts (main.lifespan,
\* populate_sprints.main).  The OperationalError of the rename is not caught.
InitDb(c) ==
    /\ caller[c].pc = "start"
    /\ IF InitDbRaises(tables)
       THEN /\ caller' = [caller EXCEPT ![c] = [Idle EXCEPT !.pc = "crashed", !.op = "_init_db"]]
            /\ UNCHANGED tables
       ELSE /\ caller' = [caller EXCEPT ![c] = Idle]
            /\ tables' = InitDbTables(tables)
    /\ UNCHANGED <<clock, lastSaved>>

\* save_sprint, first half: time.time(), the key's parts, json.dumps.
\* A TypeError of json.dumps is swallowed and the call returns; a ValueError
\* is not caught and leaves save_sprint.
SaveBegin(c, key, data) ==
    /\ caller[c].pc = "idle"
    /\ clock < MaxClock
    /\ clock' = clock + 1
    /\ LET j == json_dumps(data)
       IN caller' = [caller EXCEPT ![c] =
            [Idle EXCEPT !.pc = CASE j = TypeError -> "ret"
                                  [] j = ValueError -> "raised"
                                  [] OTHER -> "save_exec",
                         !.op = "save_sprint", !.key = key, !.data = data,
                         !.now = clock, !.json = j,
                         !.err = (j \in {TypeError, ValueError}),
                         !.conn = caller[c].conn]]
    /\ UNCHANGED <<tables, lastSaved>>

\* save_sprint, second half: connect, INSERT OR REPLACE, commit, close.
SaveExec(c) ==
    /\ caller[c].pc = "save_exec"
    /\ "sprints" \in DOMAIN tables
    /\ tables' = [tables EXCEPT !["sprints"] =
            InsertOrReplace(@, caller[c].key, caller[c].json, caller[c].now)]
    /\ lastSaved' = Put(lastSaved, caller[c].key, caller[c].data)
    /\ caller' = [caller EXCEPT ![c].pc = "ret"]
    /\ UNCHANGED clock

\* save_sprint, second half failing: sqlite3.Error (no such table, database
\* is locked, disk I/O error) is swallowed; nothing is committed.
SaveError(c) ==
    /\ caller[c].pc = "save_exec"
    /\ caller' = [caller EXCEPT ![c].pc = "ret", ![c].err = TRUE]
    /\ UNCHANGED <<tables, clock, lastSaved>>

\* get_sprint: the stored payload, or None when there is no row.
GetSprint(c, key) ==
    /\ caller[c].pc = "idle"
    /\ "sprints" \in DOMAIN tables
    /\ caller' = [caller EXCEPT ![c] =
            [Idle EXCEPT !.pc = "ret", !.op = "get_sprint", !.key = key,
                         !.ret = SelectPayload(Rows, key)]]
    /\ UNCHANGED <<tables, clock, lastSaved>>

\* get_sprint failing: sqlite3.Error is swallowed and None returned.
GetError(c, key) ==
    /\ caller[c].pc = "idle"
    /\ caller' = [caller EXCEPT ![c] =
            [Idle EXCEPT !.pc = "ret", !.op = "get_sprint", !.key = key,
                         !.err = TRUE]]
    /\ UNCHANGED <<tables, clock, lastSaved>>

\* delete_sprint: connect, DELETE, commit, close.
DeleteSprint(c, key) ==
    /\ caller[c].pc = "idle"
    /\ "sprints" \in DOMAIN tables
    /\ tables' = [tables EXCEPT !["sprints"] = DeleteFrom(@, key)]
    /\ lastSaved' = Drop(lastSaved, key)
    /\ caller' = [caller EXCEPT ![c] =
            [Idle EXCEPT !.pc = "ret", !.op = "delete_sprint", !.key = key]]
    /\ UNCHANGED clock

\* delete_sprint failing: sqlite3.Error is swallowed.
DeleteError(c, key) ==
    /\ caller[c].pc = "idle"
    /\ caller' = [caller EXCEPT ![c] =
            [Idle EXCEPT !.pc = "ret", !.op = "delete_sprint", !.key = key,
                         !.err = TRUE]]
    /\ UNCHANGED <<tables, clock, lastSaved>>

\* The call returns to its caller, or its exception reaches the caller.
Return(c) ==
    /\ caller[c].pc \in {"ret", "raised"}
    /\ caller' = [caller EXCEPT ![c] = [Idle EXCEPT !.conn = caller[c].conn]]
    /\ UNCHANGED <<tables, clock, lastSaved>>

RECURSIVE SumBytes(_, _)
\* SUM(LENGTH(data_json)) over the rows of the given keys.
SumBytes(rows, keys) ==
    IF keys = {} THEN 0
    ELSE LET k == CHOOSE x \in keys : TRUE
         IN TextLen(rows[k].data_json) + SumBytes(rows, keys \ {k})

\* The orders ORDER BY updated_at DESC may return the rows in (SQL leaves
\* the order of equal timestamps open).
StatsOrders(rows) ==
    LET n == Cardinality(DOMAIN rows)
    IN {o \in [1..n -> DOMAIN rows] :
          /\ \A i, j \in 1..n : i # j => o[i] # o[j]
          /\ \A i, j \in 1..n :
                i < j => rows[o[i]].updated_at >= rows[o[j]].updated_at}

\* The dict get_store_stats returns for the rows, listed in the order o.
StatsOf(rows, o) ==
    LET ks == DOMAIN rows
        oldest == CHOOSE k \in ks : \A x \in ks : rows[k].updated_at <= rows[x].updated_at
        newest == CHOOSE k \in ks : \A x \in ks : rows[k].updated_at >= rows[x].updated_at
        entry(k) == PyDict(<<KV("sprint_key", PyList([i \in 1..Len(k) |-> PyStr(k[i])])),
                             KV("sprint_start", PyStr(rows[k].sprint_start)),
                             KV("sprint_end", PyStr(rows[k].sprint_end)),
                             KV("size_bytes", PyInt(TextLen(rows[k].data_json))),
                             KV("updated_at", PyInt(rows[k].updated_at))>>)
    IN PyDict(<<KV("entry_count", PyInt(Cardinality(ks))),
                KV("total_bytes", PyInt(SumBytes(rows, ks))),
                KV("oldest_update",
                   IF ks = {} THEN PyNone ELSE PyInt(rows[oldest].updated_at)),
                KV("newest_update",
                   IF ks = {} THEN PyNone ELSE PyInt(rows[newest].updated_at)),
                KV("entries", PyList([i \in 1..Len(o) |-> entry(o[i])]))>>)

StatsError == PyDict(<<KV("error", PyStr("Failed to get store stats"))>>)

\* get_store_stats: the two SELECTs under one connection.
GetStoreStats(c) ==
    /\ caller[c].pc = "idle"
    /\ "sprints" \in DOMAIN tables
    /\ \E o \in StatsOrders(Rows) :
          caller' = [caller EXCEPT ![c] =
            [Idle EXCEPT !.pc = "ret", !.op = "get_store_stats",
                         !.ret = StatsOf(Rows, o)]]
    /\ UNCHANGED <<tables, clock, lastSaved>>

\* get_store_stats failing: sqlite3.Error gives the error record.
StatsFail(c) ==
    /\ caller[c].pc = "idle"
    /\ caller' = [caller EXCEPT ![c] =
            [Idle EXCEPT !.pc = "ret", !.op = "get_store_stats",
                         !.ret = StatsError, !.err = TRUE]]
    /\ UNCHANGED <<tables, clock, lastSaved>>


-----------------------------------------------------------------------------
(* The pagination driver: github_service.fetch_all_pages *)

\* settings.max_pages_per_query
max_pages_per_query == 10

\* The connection paths of the four queries.
ReposPath == <<"organization", "repositories">>
PrsPath == <<"repository", "pullRequests">>
ReviewsPath == <<"repository", "pullRequest", "reviews">>
CommitsPath == <<"repository", "defaultBranchRef", "target", "history">>

FailKinds == {"none", "nodata", "nulldata", "nullpath", "missingkey",
              "nullnodes", "nopageinfo"}

\* The kinds that break the connection path at one of its keys.
PathKinds == {"nullpath", "missingkey"}

\* The remote's behaviour towards one paginated query: the connection path
\* of the query, how many pages the resource has, whether the remote answers
\* hasNextPage=true for ever, whether it returns no endCursor, which page is
\* empty, which call (0: none) fails and how (for a broken path: at which
\* key of the path), and the nodes of the resource (listing) or nodes named
\* by page and position (no listing).
Remotes ==
    [path : {ReposPath}, pages : 0..MaxRemotePages, runaway : BOOLEAN,
     nocursor : BOOLEAN, emptyAt : {0, 2}, failAt : 1..max_pages_per_query,
     failKind : FailKinds \ PathKinds, depth : {0},
     listing : {FALSE}, items : {<<>>}]
    \cup
    {r \in [path : {ReposPath, CommitsPath}, pages : 0..MaxRemotePages,
            runaway : {FALSE}, nocursor : {FALSE}, emptyAt : {0},
            failAt : {1, 3}, failKind : PathKinds,
            depth : 1..Len(CommitsPath), listing : {FALSE}, items : {<<>>}] :
        r.depth <= Len(r.path)}
    \cup
    [path : {ReposPath}, pages : 0..MaxRemotePages, runaway : BOOLEAN,
     nocursor : BOOLEAN, emptyAt : {0, 2}, failAt : {0},
     failKind : {"none"}, depth : {0}, listing : {FALSE}, items : {<<>>}]

NoRemote == [path |-> ReposPath, pages |-> 0, runaway |-> FALSE,
             nocursor |-> FALSE, emptyAt |-> 0, failAt |-> 0,
             failKind |-> "none", depth |-> 0, listing |-> FALSE,
             items |-> <<>>]

\* The remote serving the given nodes, NodesPerPage to a page; failed: the
\* first call gets no answer.
Listing(path, items, failed) ==
    [path |-> path,
     pages |-> (Len(items) + NodesPerPage - 1) \div NodesPerPage,
     runaway |-> FALSE, nocursor |-> FALSE, emptyAt |-> 0,
     failAt |-> IF failed THEN 1 ELSE 0, failKind |-> "none", depth |-> 0,
     listing |-> TRUE, items |-> items]

CursorOf(i) == PyStr(ToString(i))

\* The page the remote serves for "after: cursor".
PageAfter(cursor) ==
    IF cursor = PyNone THEN 1
    ELSE 1 + CHOOSE i \in 1..(MaxRemotePages + max_pages_per_query + 1) :
                 CursorOf(i) = cursor

RemoteNode(i, j) == PyDict(<<KV("page", PyInt(i)), KV("item", PyInt(j))>>)

PageNodes(sc, i) ==
    IF i > sc.pages \/ i = sc.emptyAt THEN <<>>
    ELSE IF sc.listing
    THEN LET last == IF i * NodesPerPage < Len(sc.items)
                     THEN i * NodesPerPage ELSE Len(sc.items)
         IN SubSeq(sc.items, (i - 1) * NodesPerPage + 1, last)
    ELSE [j \in 1..NodesPerPage |-> RemoteNode(i, j)]

PageInfo(sc, i) ==
    PyDict(<<KV("hasNextPage", PyBool(sc.runaway \/ i < sc.pages)),
             KV("endCursor", IF sc.nocursor THEN PyNone ELSE CursorOf(i))>>)

RECURSIVE Wrap(_, _)
Wrap(path, connection) ==
    IF path = <<>> THEN connection
    ELSE PyDict(<<KV(Head(path), Wrap(Tail(path), connection))>>)

\* The response envelope: the connection under "data" at the query's path.
Envelope(path, connection) == PyDict(<<KV("data", Wrap(path, connection))>>)

\* The "data" of a response whose connection path stops at its key number
\* depth: the key's value is null, or the key is missing.
BrokenPath(path, depth, null) ==
    Wrap(SubSeq(path, 1, depth - 1),
         IF null THEN PyDict(<<KV(path[depth], PyNone)>>) ELSE PyDict(<<>>))

\* What fetch_graphql returns for call number n with the given cursor: the
\* parsed response, or None when gh fails or prints no JSON.
fetch_graphql(sc, n, cursor) ==
    LET i == PageAfter(cursor) IN
    IF sc.failAt # n
    THEN Envelope(sc.path, PyDict(<<KV("pageInfo", PageInfo(sc, i)),
                                    KV("nodes", PyList(PageNodes(sc, i)))>>))
    ELSE CASE sc.failKind = "none" -> PyNone
           [] sc.failKind = "nodata" -> PyDict(<<KV("errors", PyList(<<>>))>>)
           [] sc.failKind = "nulldata" ->
                PyDict(<<KV("data", PyNone), KV("errors", PyList(<<>>))>>)
           [] sc.failKind = "nullpath" ->
                PyDict(<<KV("data", BrokenPath(sc.path, sc.depth, TRUE))>>)
           [] sc.failKind = "missingkey" ->
                PyDict(<<KV("data", BrokenPath(sc.path, sc.depth, FALSE))>>)
           [] sc.failKind = "nullnodes" ->
                Envelope(sc.path, PyDict(<<KV("pageInfo", PageInfo(sc, i)),
                                           KV("nodes", PyNone)>>))
           [] OTHER ->
                Envelope(sc.path,
                         PyDict(<<KV("nodes", PyList(PageNodes(sc, i)))>>))

\* The executor returned no result, or a response without "data".
CallFailed(result) == result = PyNone \/ ~HasKey(result, "data")

RECURSIVE Walk(_, _)
\* for key in path: if connection is None: break; connection = connection.get(key, {})
Walk(connection, path) ==
    IF path = <<>> \/ connection = PyNone THEN connection
    ELSE Walk(DictGetOr(connection, Head(path), PyDict(<<>>)), Tail(path))

NoFetch == [pc |-> "off", path |-> <<>>, all_nodes |-> <<>>, cursor |-> PyNone,
            pages_fetched |-> 0, connection |-> PyNone,
            calls |-> <<>>, got |-> <<>>]

\* The locals at entry: all_nodes = [], cursor = None, pages_fetched = 0.
FetchStart(path) == [NoFetch EXCEPT !.pc = "loop", !.path = path]

\* Mutant: "<=" for "<" in the loop condition.
LoopGuardOffByOne(pages_fetched) == pages_fetched <= max_pages_per_query

\* while pages_fetched < settings.max_pages_per_query
LoopGuard(pages_fetched) == pages_fetched < max_pages_per_query

\* Mutant: a failed call discards the nodes gathered so far.
OnNoResultDiscard(st) == [st EXCEPT !.pc = "done", !.all_nodes = <<>>]

\* if not result or "data" not in result: break
OnNoResult(st) == [st EXCEPT !.pc = "done"]

\* The loop body after the call returned result, up to the connection:
\* the break on a missing result, else the walk along the path.
FindConnection(st, result) ==
    IF ~Truthy(result) \/ ~HasKey(result, "data")
    THEN OnNoResult(st)
    ELSE [st EXCEPT !.pc = "connection",
                    !.connection = Walk(DictGet(result, "data"), st.path)]

\* Mutant: an empty connection counts as a page and the loop goes on.
PageStepEmptyIsPage(st, connection) ==
    IF ~Truthy(connection)
    THEN [st EXCEPT !.pc = "loop", !.pages_fetched = @ + 1]
    ELSE LET nodes == DictGetOr(connection, "nodes", PyList(<<>>))
             page_info == DictGetOr(connection, "pageInfo", PyDict(<<>>))
         IN IF nodes = PyNone
            THEN [st EXCEPT !.pc = "raised"]
            ELSE IF ~Truthy(DictGet(page_info, "hasNextPage"))
            THEN [st EXCEPT !.pc = "done", !.all_nodes = @ \o nodes.kids]
            ELSE [st EXCEPT !.pc = "loop",
                            !.all_nodes = @ \o nodes.kids,
                            !.cursor = DictGet(page_info, "endCursor"),
                            !.pages_fetched = @ + 1]

\* The loop body from "if not connection" on.
PageStep(st, connection) ==
    IF ~Truthy(connection)
    THEN [st EXCEPT !.pc = "done"]
    ELSE LET nodes == DictGetOr(connection, "nodes", PyList(<<>>))
             page_info == DictGetOr(connection, "pageInfo", PyDict(<<>>))
         IN IF nodes = PyNone
            THEN [st EXCEPT !.pc = "raised"]    \* extend(None): TypeError
            ELSE IF ~Truthy(DictGet(page_info, "hasNextPage"))
            THEN [st EXCEPT !.pc = "done", !.all_nodes = @ \o nodes.kids]
            ELSE [st EXCEPT !.pc = "loop",
                            !.all_nodes = @ \o nodes.kids,
                            !.cursor = DictGet(page_info, "endCursor"),
                            !.pages_fetched = @ + 1]

\* Mutant: every call is made without the cursor.
CallStepNoCursor(sc, st) ==
    [st EXCEPT !.pc = "result",
               !.calls = Append(@, PyNone),
               !.got = Append(@, fetch_graphql(sc, Len(st.calls) + 1, PyNone))]

\* vars_with_cursor = {**variables, "cursor": cursor};
\* result = fetch_graphql(query, vars_with_cursor)   (a None cursor is not
\* passed to gh, and the remote then serves the first page)
CallStep(sc, st) ==
    [st EXCEPT !.pc = "result",
               !.calls = Append(@, st.cursor),
               !.got = Append(@, fetch_graphql(sc, Len(st.calls) + 1, st.cursor))]

RECURSIVE RunPages(_, _)
\* The loop run from the locals st to its end.
RunPages(sc, st) ==
    CASE st.pc = "loop" ->
            IF LoopGuard(st.pages_fetched)
            THEN RunPages(sc, CallStep(sc, st))
            ELSE [st EXCEPT !.pc = "done"]
      [] st.pc = "result" ->
            RunPages(sc, FindConnection(st, st.got[Len(st.got)]))
      [] st.pc = "connection" ->
            RunPages(sc, PageStep([st EXCEPT !.connection = PyNone],
                                  st.connection))
      [] OTHER -> st

\* fetch_all_pages(query, variables, path) as one call: the locals at its
\* end (pc "done": all_nodes is returned; pc "raised": an exception leaves).
fetch_all_pages(sc) == RunPages(sc, FetchStart(sc.path))

\* The loop is entered and the executor called with the current cursor.
FetchCall ==
    /\ fp.pc = "loop"
    /\ LoopGuard(fp.pages_fetched)
    /\ fp' = CallStep(remote, fp)
    /\ UNCHANGED remote

\* The result is checked and the path walked to the connection.
FetchWalk ==
    /\ fp.pc = "result"
    /\ fp' = FindConnection(fp, fp.got[Len(fp.got)])
    /\ UNCHANGED remote

\* The rest of the iteration: nodes, pageInfo, cursor.
FetchPage ==
    /\ fp.pc = "connection"
    /\ fp' = PageStep([fp EXCEPT !.connection = PyNone], fp.connection)
    /\ UNCHANGED remote

\* The loop condition fails: return all_nodes.
FetchCeiling ==
    /\ fp.pc = "loop"
    /\ ~LoopGuard(fp.pages_fetched)
    /\ fp' = [fp EXCEPT !.pc = "done"]
    /\ UNCHANGED remote

PagesInit ==
    /\ remote \in Remotes
    /\ fp = FetchStart(remote.path)
    /\ tables = NoTables /\ clock = 1 /\ lastSaved = NoRows
    /\ caller = [c \in Callers |-> Idle]
    /\ req = [c \in Callers |-> NoCall]
    /\ CalcIdle

PagesNext == FetchCall \/ FetchWalk \/ FetchPage \/ FetchCeiling

SpecPages ==
    PagesInit /\ [][PagesNext /\ UNCHANGED <<storeVars, req, calcVars>>]_vars

\* The call runs to its end once started (a synchronous loop).
SpecPagesFair ==
    SpecPages /\ WF_vars(PagesNext /\ UNCHANGED <<storeVars, req, calcVars>>)

-----------------------------------------------------------------------------
(* Numbers and texts *)

\* The text of a non-negative integer, and the integer of a text.
IntText == [n \in 0..MaxNumber |-> ToString(n)]
ParseInt(s) == CHOOSE n \in 0..MaxNumber : IntText[n] = s

\* A timestamp "YYYY-MM-DDTHH:00:00Z" is the count of its hours, written as
\* text; its first ten characters are its date.
HoursPerDay == 24
IsoText(hours) == ToString(hours)
DateText(day) == ToString(day)

\* text[:10] of a timestamp text as a day ordinal; "" sorts before every date.
DateOf(text) == IF text = "" THEN 0 - 1 ELSE ParseInt(text) \div HoursPerDay

Abs(n) == IF n < 0 THEN 0 - n ELSE n

RECURSIVE GCD(_, _)
GCD(a, b) == IF b = 0 THEN a ELSE GCD(b, a % b)

\* A float is the exact fraction <<numerator, denominator>> in lowest terms;
\* an absent float (None) is <<>>.
Frac(n, d) ==
    LET g == GCD(Abs(n), d) IN IF n = 0 THEN <<0, 1>> ELSE <<n \div g, d \div g>>
FracLess(x, y) == x[1] * y[2] < y[1] * x[2]
FracMin(x, y) == IF FracLess(y, x) THEN y ELSE x
FracMax(x, y) == IF FracLess(x, y) THEN y ELSE x
FloatText(x) == ToString(x[1]) \o "/" \o ToString(x[2])
PyFrac(x) == IF x = <<>> THEN PyNone ELSE PyFloat(FloatText(x))

RECURSIVE SumSeq(_)
SumSeq(q) == IF q = <<>> THEN 0 ELSE Head(q) + SumSeq(Tail(q))

\* Mutant: the average of no samples is 0.
AverageOrZero(xs) == IF xs = <<>> THEN Frac(0, 1) ELSE Frac(SumSeq(xs), Len(xs))

\* sum(xs) / len(xs) if xs else None
Average(xs) == IF xs = <<>> THEN <<>> ELSE Frac(SumSeq(xs), Len(xs))

FracAdd(x, y) == Frac(x[1] * y[2] + y[1] * x[2], x[2] * y[2])

RECURSIVE FracSum(_)
FracSum(q) == IF q = <<>> THEN Frac(0, 1) ELSE FracAdd(Head(q), FracSum(Tail(q)))

\* round(x, 1), in tenths (ties to even).
RoundTenths(x) ==
    LET q == (10 * x[1]) \div x[2]
        r == 10 * x[1] - q * x[2]
    IN IF 2 * r > x[2] THEN q + 1
       ELSE IF 2 * r < x[2] THEN q
       ELSE IF q % 2 = 0 THEN q ELSE q + 1

-----------------------------------------------------------------------------
(* The scoring engine: metrics_service.py *)

\* value or default  (None and 0 take the default)
OrDefault(x, default) == IF x = <<>> \/ x[1] = 0 THEN Frac(default, 1) ELSE x

\* max(0, min(100, 100 - (t - lo) * (100 / span)))
Clamp(t, lo, span) ==
    FracMax(Frac(0, 1),
            FracMin(Frac(100, 1),
                    Frac(100 * span * t[2] - 100 * (t[1] - lo * t[2]),
                         span * t[2])))

IntMin(a, b) == IF a < b THEN a ELSE b
IntMax(a, b) == IF a < b THEN b ELSE a

\* The five unrounded scores of a developer's metrics.
RawScores(metrics) ==
    LET review_time == OrDefault(metrics.avg_review_time_hours, 24)
        cycle_time == OrDefault(metrics.avg_cycle_time_hours, 48)
        lines_changed == metrics.lines_added + metrics.lines_deleted
        prs_opened == IF metrics.prs_opened = 0 THEN 1 ELSE metrics.prs_opened
        avg_pr_size == Frac(lines_changed, IntMax(prs_opened, 1))
    IN [review_score |-> Clamp(review_time, 2, 22),
        cycle_score |-> Clamp(cycle_time, 8, 64),
        size_score |-> Clamp(avg_pr_size, 200, 800),
        review_cov_score |-> IntMin(100, metrics.reviews_given * 10),
        commit_score |-> IntMin(100, metrics.commits * 5)]

\* calculate_dxi_score, in tenths: the weighted sum of the unrounded scores,
\* rounded to one decimal.
calculate_dxi_score(metrics) ==
    LET s == RawScores(metrics)
        w(x, weight) == Frac(weight * x[1], 100 * x[2])
        a == w(s.review_score, 25)
        b == w(s.cycle_score, 25)
        c == w(s.size_score, 20)
        rest == Frac(15 * s.review_cov_score + 15 * s.commit_score, 100)
        add(x, y) == Frac(x[1] * y[2] + y[1] * x[2], x[2] * y[2])
    IN RoundTenths(add(add(a, b), add(c, rest)))

\* calculate_developer_dimension_scores, in tenths: the five scores, each
\* rounded to one decimal (the two that are ints stay as they are).
calculate_developer_dimension_scores(metrics) ==
    LET s == RawScores(metrics)
    IN [review_speed |-> RoundTenths(s.review_score),
        cycle_time |-> RoundTenths(s.cycle_score),
        pr_size |-> RoundTenths(s.size_score),
        review_coverage |-> 10 * s.review_cov_score,
        commit_frequency |-> 10 * s.commit_score]

\* safe_avg(values): the mean of the values that are not None, else 0.
safe_avg(values) ==
    LET given(v) == v # <<>>
        valid == SelectSeq(values, given)
        total == FracSum(valid)
    IN IF valid = <<>> THEN Frac(0, 1)
       ELSE Frac(total[1], total[2] * Len(valid))

\* calculate_dimension_scores(developers), in tenths.
calculate_dimension_scores(developers) ==
    LET n == Len(developers)
        avg_review_time ==
            safe_avg([i \in 1..n |-> developers[i].avg_review_time_hours])
        avg_cycle_time ==
            safe_avg([i \in 1..n |-> developers[i].avg_cycle_time_hours])
        avg_pr_size ==
            safe_avg([i \in 1..n |->
                        Frac(developers[i].lines_added
                               + developers[i].lines_deleted,
                             IntMax(developers[i].prs_opened, 1))])
        avg_reviews ==
            safe_avg([i \in 1..n |-> Frac(developers[i].reviews_given, 1)])
        avg_commits ==
            safe_avg([i \in 1..n |-> Frac(developers[i].commits, 1)])
        review_score == IF avg_review_time[1] # 0
                        THEN Clamp(avg_review_time, 2, 22) ELSE Frac(50, 1)
        cycle_score == IF avg_cycle_time[1] # 0
                       THEN Clamp(avg_cycle_time, 8, 64) ELSE Frac(50, 1)
        size_score == Clamp(avg_pr_size, 200, 800)
        review_cov_score ==
            FracMin(Frac(100, 1), Frac(10 * avg_reviews[1], avg_reviews[2]))
        commit_score ==
            FracMin(Frac(100, 1), Frac(5 * avg_commits[1], avg_commits[2]))
    IN IF developers = <<>>
       THEN [review_speed |-> 500, cycle_time |-> 500, pr_size |-> 500,
             review_coverage |-> 500, commit_frequency |-> 500]
       ELSE [review_speed |-> RoundTenths(review_score),
             cycle_time |-> RoundTenths(cycle_score),
             pr_size |-> RoundTenths(size_score),
             review_coverage |-> RoundTenths(review_cov_score),
             commit_frequency |-> RoundTenths(commit_score)]

-----------------------------------------------------------------------------
(* The aggregation: github_service.process_paginated_data *)

\* The logins of the model that end with "[bot]".
BotLogins == {"dependabot[bot]"}
EndsWithBot(login) == login \in BotLogins

\* x or default
Or(x, default) == IF Truthy(x) THEN x ELSE default

\* Mutant: only the empty login is skipped.
SkippedEmptyOnly(login) == ~Truthy(login)

\* if not login or login.endswith("[bot]"): continue
Skipped(login) == ~Truthy(login) \/ EndsWithBot(login.s)

\* The value a developer_stats defaultdict creates for a new login.
NewDev(login) ==
    [login |-> login, commits |-> 0, prs_opened |-> 0, prs_merged |-> 0,
     reviews_given |-> 0, lines_added |-> 0, lines_deleted |-> 0,
     review_times |-> <<>>, cycle_times |-> <<>>]

\* The value a daily_stats defaultdict creates for a new date.
NewDay == [commits |-> 0, prs_opened |-> 0, prs_merged |-> 0, reviews_given |-> 0]

NoStats == [devs |-> <<>>, daily |-> [d \in {} |-> NewDay]]

DevIndex(devs, login) ==
    IF \E i \in 1..Len(devs) : devs[i].login = login
    THEN CHOOSE i \in 1..Len(devs) : devs[i].login = login
    ELSE Len(devs) + 1

\* developer_stats[login][field] += n   (devs keeps the insertion order)
AddDev(acc, login, field, n) ==
    LET devs == IF DevIndex(acc.devs, login) > Len(acc.devs)
                THEN Append(acc.devs, NewDev(login)) ELSE acc.devs
        i == DevIndex(devs, login)
    IN [acc EXCEPT !.devs = [devs EXCEPT ![i][field] = @ + n]]

\* developer_stats[login][field].append(hours)
AppendDev(acc, login, field, hours) ==
    LET devs == IF DevIndex(acc.devs, login) > Len(acc.devs)
                THEN Append(acc.devs, NewDev(login)) ELSE acc.devs
        i == DevIndex(devs, login)
    IN [acc EXCEPT !.devs = [devs EXCEPT ![i][field] = Append(@, hours)]]

\* Mutant: the statistics of the days are not kept.
AddDayDropped(acc, date, field) == acc

\* daily_stats[date][field] += 1
AddDay(acc, date, field) ==
    LET old == IF date \in DOMAIN acc.daily THEN acc.daily[date] ELSE NewDay
    IN [acc EXCEPT !.daily = Put(acc.daily, date, [old EXCEPT ![field] = @ + 1])]

IntOf(v) == ParseInt(v.s)

\* Mutant: commits from before since_date are counted.
CommitStepNoStartCheck(acc, commit, since_date, until_date) ==
    LET author_data == DictGetOr(commit, "author", PyDict(<<>>))
        user == Or(DictGet(author_data, "user"), PyDict(<<>>))
        login == Or(DictGet(user, "login"),
                    DictGetOr(author_data, "name", PyStr("")))
        commit_date == DateOf(DictGetOr(author_data, "date", PyStr("")).s)
    IN IF Skipped(login) THEN acc
       ELSE IF commit_date > until_date THEN acc
       ELSE AddDay(
              AddDev(
                AddDev(
                  AddDev(acc, login.s, "commits", 1),
                  login.s, "lines_added",
                  IntOf(DictGetOr(commit, "additions", PyInt(0)))),
                login.s, "lines_deleted",
                IntOf(DictGetOr(commit, "deletions", PyInt(0)))),
              commit_date, "commits")

\* for commit in commits: the body of the loop.
CommitStep(acc, commit, since_date, until_date) ==
    LET author_data == DictGetOr(commit, "author", PyDict(<<>>))
        user == Or(DictGet(author_data, "user"), PyDict(<<>>))
        login == Or(DictGet(user, "login"),
                    DictGetOr(author_data, "name", PyStr("")))
        commit_date == DateOf(DictGetOr(author_data, "date", PyStr("")).s)
    IN IF Skipped(login) THEN acc
       ELSE IF commit_date < since_date THEN acc
       ELSE IF commit_date > until_date THEN acc
       ELSE AddDay(
              AddDev(
                AddDev(
                  AddDev(acc, login.s, "commits", 1),
                  login.s, "lines_added",
                  IntOf(DictGetOr(commit, "additions", PyInt(0)))),
                login.s, "lines_deleted",
                IntOf(DictGetOr(commit, "deletions", PyInt(0)))),
              commit_date, "commits")

\* Mutant: a review is counted whenever it was submitted.
ReviewStepNoEndCheck(acc, review, created_at, until_date) ==
    LET reviewer == Or(DictGet(review, "author"), PyDict(<<>>))
        reviewer_login == DictGetOr(reviewer, "login", PyStr(""))
        submitted_at == DictGet(review, "submittedAt")
        review_date == DateOf(submitted_at.s)
        review_hours == ParseInt(submitted_at.s) - ParseInt(created_at.s)
        counted == AddDay(AddDev(acc, reviewer_login.s, "reviews_given", 1),
                          review_date, "reviews_given")
    IN IF Skipped(reviewer_login) THEN acc
       ELSE IF ~Truthy(submitted_at) THEN acc
       ELSE IF review_hours > 0
       THEN AppendDev(counted, reviewer_login.s, "review_times", review_hours)
       ELSE counted

\* for review in reviews: the body of the loop.
ReviewStep(acc, review, created_at, until_date) ==
    LET reviewer == Or(DictGet(review, "author"), PyDict(<<>>))
        reviewer_login == DictGetOr(reviewer, "login", PyStr(""))
        submitted_at == DictGet(review, "submittedAt")
        review_date == DateOf(submitted_at.s)
        review_hours == ParseInt(submitted_at.s) - ParseInt(created_at.s)
        counted == AddDay(AddDev(acc, reviewer_login.s, "reviews_given", 1),
                          review_date, "reviews_given")
    IN IF Skipped(reviewer_login) THEN acc
       ELSE IF ~Truthy(submitted_at) THEN acc
       ELSE IF review_date > until_date THEN acc
       ELSE IF review_hours > 0
       THEN AppendDev(counted, reviewer_login.s, "review_times", review_hours)
       ELSE counted

RECURSIVE ReviewLoop(_, _, _, _)
ReviewLoop(acc, reviews, created_at, until_date) ==
    IF reviews = <<>> THEN acc
    ELSE ReviewLoop(ReviewStep(acc, Head(reviews), created_at, until_date),
                    Tail(reviews), created_at, until_date)

\* for pr in prs: the three tests that skip the pull request.
PrCounted(pr, since_date, until_date) ==
    LET created_at == DictGetOr(pr, "createdAt", PyStr(""))
        created_date == IF Truthy(created_at) THEN DateOf(created_at.s) ELSE 0 - 1
        author == Or(DictGet(pr, "author"), PyDict(<<>>))
        login == DictGetOr(author, "login", PyStr(""))
    IN ~(created_date < since_date) /\ ~(created_date > until_date)
       /\ ~Skipped(login)

\* reviews = pr.get("reviews", {}).get("nodes", [])
PrReviews(pr) ==
    DictGetOr(DictGetOr(pr, "reviews", PyDict(<<>>)), "nodes", PyList(<<>>)).kids

\* Mutant: a merge is counted whenever it happened.
PrOwnMergedAnyTime(acc, pr, until_date) ==
    LET created_at == DictGetOr(pr, "createdAt", PyStr(""))
        created_date == IF Truthy(created_at) THEN DateOf(created_at.s) ELSE 0 - 1
        author == Or(DictGet(pr, "author"), PyDict(<<>>))
        login == DictGetOr(author, "login", PyStr(""))
        opened == AddDay(
                    AddDev(
                      AddDev(
                        AddDev(acc, login.s, "prs_opened", 1),
                        login.s, "lines_added",
                        IntOf(DictGetOr(pr, "additions", PyInt(0)))),
                      login.s, "lines_deleted",
                      IntOf(DictGetOr(pr, "deletions", PyInt(0)))),
                    created_date, "prs_opened")
        merged_at == DictGet(pr, "mergedAt")
        merged_date == DateOf(merged_at.s)
        cycle_hours == ParseInt(merged_at.s) - ParseInt(created_at.s)
    IN IF Truthy(merged_at)
       THEN AppendDev(
              AddDay(AddDev(opened, login.s, "prs_merged", 1),
                     merged_date, "prs_merged"),
              login.s, "cycle_times", cycle_hours)
       ELSE opened

\* for pr in prs: the counting of a pull request that is not skipped, up to
\* its reviews: opened, lines, merged and cycle time.
PrOwn(acc, pr, until_date) ==
    LET created_at == DictGetOr(pr, "createdAt", PyStr(""))
        created_date == IF Truthy(created_at) THEN DateOf(created_at.s) ELSE 0 - 1
        author == Or(DictGet(pr, "author"), PyDict(<<>>))
        login == DictGetOr(author, "login", PyStr(""))
        opened == AddDay(
                    AddDev(
                      AddDev(
                        AddDev(acc, login.s, "prs_opened", 1),
                        login.s, "lines_added",
                        IntOf(DictGetOr(pr, "additions", PyInt(0)))),
                      login.s, "lines_deleted",
                      IntOf(DictGetOr(pr, "deletions", PyInt(0)))),
                    created_date, "prs_opened")
        merged_at == DictGet(pr, "mergedAt")
        merged_date == DateOf(merged_at.s)
        cycle_hours == ParseInt(merged_at.s) - ParseInt(created_at.s)
    IN IF Truthy(merged_at) /\ merged_date <= until_date
       THEN AppendDev(
              AddDay(AddDev(opened, login.s, "prs_merged", 1),
                     merged_date, "prs_merged"),
              login.s, "cycle_times", cycle_hours)
       ELSE opened

\* for pr in prs: the body of the loop.
PrStep(acc, pr, since_date, until_date) ==
    IF ~PrCounted(pr, since_date, until_date) THEN acc
    ELSE ReviewLoop(PrOwn(acc, pr, until_date), PrReviews(pr),
                    DictGetOr(pr, "createdAt", PyStr("")), until_date)


RECURSIVE CommitLoop(_, _, _, _)
CommitLoop(acc, commits, since_date, until_date) ==
    IF commits = <<>> THEN acc
    ELSE CommitLoop(CommitStep(acc, Head(commits), since_date, until_date),
                    Tail(commits), since_date, until_date)

RECURSIVE PrLoop(_, _, _, _)
PrLoop(acc, prs, since_date, until_date) ==
    IF prs = <<>> THEN acc
    ELSE PrLoop(PrStep(acc, Head(prs), since_date, until_date),
                Tail(prs), since_date, until_date)

\* dev_metrics of one developer_stats item, with its dxi_score (in tenths).
DevMetrics(stats) ==
    LET m == [developer |-> stats.login,
              commits |-> stats.commits,
              prs_opened |-> stats.prs_opened,
              prs_merged |-> stats.prs_merged,
              reviews_given |-> stats.reviews_given,
              lines_added |-> stats.lines_added,
              lines_deleted |-> stats.lines_deleted,
              avg_review_time_hours |-> Average(stats.review_times),
              avg_cycle_time_hours |-> Average(stats.cycle_times)]
    IN m @@ [dxi_score |-> calculate_dxi_score(m)]

RECURSIVE InsertByScore(_, _)
\* d placed into the list sorted by score descending, after its equals.
InsertByScore(sorted, d) ==
    IF sorted = <<>> THEN <<d>>
    ELSE IF Head(sorted).dxi_score >= d.dxi_score
    THEN <<Head(sorted)>> \o InsertByScore(Tail(sorted), d)
    ELSE <<d>> \o sorted

\* Mutant: the developers stay in the order they were first seen in.
SortByScoreSkipped(developers) == developers

RECURSIVE SortByScore(_)
\* developers.sort(key=dxi_score or 0, reverse=True): a stable sort.
SortByScore(developers) ==
    IF developers = <<>> THEN <<>>
    ELSE InsertByScore(SortByScore(SubSeq(developers, 1, Len(developers) - 1)),
                       developers[Len(developers)])

RECURSIVE SortedDates(_)
\* sorted(daily_stats.items()): the dates in increasing order.
SortedDates(dates) ==
    IF dates = {} THEN <<>>
    ELSE LET first == CHOOSE d \in dates : \A e \in dates : d <= e
         IN <<first>> \o SortedDates(dates \ {first})

\* The records process_paginated_data builds from the statistics its loops
\* gathered: developers, daily, summary.
Summarised(acc) ==
    LET developers == SortByScore([i \in 1..Len(acc.devs) |-> DevMetrics(acc.devs[i])])
        dates == SortedDates(DOMAIN acc.daily)
        n == Len(developers)
    IN [developers |-> developers,
        daily |-> [i \in 1..Len(dates) |->
                     [date |-> dates[i]] @@ acc.daily[dates[i]]],
        summary |->
          [total_commits |-> SumSeq([i \in 1..n |-> developers[i].commits]),
           total_prs |-> SumSeq([i \in 1..n |-> developers[i].prs_opened]),
           total_merged |-> SumSeq([i \in 1..n |-> developers[i].prs_merged]),
           total_reviews |-> SumSeq([i \in 1..n |-> developers[i].reviews_given]),
           avg_dxi_score |->
              IF n = 0 THEN <<>>
              ELSE Frac(SumSeq([i \in 1..n |-> developers[i].dxi_score]), 10 * n)]]

\* The two loops and the records built from them.
Processed(prs, commits, since_date, until_date) ==
    Summarised(PrLoop(CommitLoop(NoStats, commits, since_date, until_date),
                      prs, since_date, until_date))

\* The Python dicts of the records.
DevDict(d) ==
    PyDict(<<KV("developer", PyStr(d.developer)),
             KV("commits", PyInt(d.commits)),
             KV("prs_opened", PyInt(d.prs_opened)),
             KV("prs_merged", PyInt(d.prs_merged)),
             KV("reviews_given", PyInt(d.reviews_given)),
             KV("lines_added", PyInt(d.lines_added)),
             KV("lines_deleted", PyInt(d.lines_deleted)),
             KV("avg_review_time_hours", PyFrac(d.avg_review_time_hours)),
             KV("avg_cycle_time_hours", PyFrac(d.avg_cycle_time_hours)),
             KV("dxi_score", PyFrac(Frac(d.dxi_score, 10)))>>)

DayDict(d) ==
    PyDict(<<KV("date", PyStr(DateText(d.date))),
             KV("commits", PyInt(d.commits)),
             KV("prs_opened", PyInt(d.prs_opened)),
             KV("prs_merged", PyInt(d.prs_merged)),
             KV("reviews_given", PyInt(d.reviews_given))>>)

SummaryDict(s) ==
    PyDict(<<KV("total_commits", PyInt(s.total_commits)),
             KV("total_prs", PyInt(s.total_prs)),
             KV("total_merged", PyInt(s.total_merged)),
             KV("total_reviews", PyInt(s.total_reviews)),
             KV("avg_dxi_score",
                IF s.avg_dxi_score = <<>> THEN PyInt(0)
                ELSE PyFrac(s.avg_dxi_score))>>)

ResultDict(r) ==
    PyDict(<<KV("developers",
                PyList([i \in 1..Len(r.developers) |-> DevDict(r.developers[i])])),
             KV("daily", PyList([i \in 1..Len(r.daily) |-> DayDict(r.daily[i])])),
             KV("summary", SummaryDict(r.summary))>>)

\* process_paginated_data(prs, commits, since_date, until_date)
process_paginated_data(prs, commits, since_date, until_date) ==
    ResultDict(Processed(prs, commits, since_date, until_date))

-----------------------------------------------------------------------------
(* The orchestrator: github_service.fetch_all_metrics *)

\* Nodes as the remote returns them for the fields the queries select.
\* A time of -1 stands for null, a login "" for a null author.
TimeNode(hours) == IF hours < 0 THEN PyNone ELSE PyStr(IsoText(hours))
AuthorNode(login) ==
    IF login = "" THEN PyNone ELSE PyDict(<<KV("login", PyStr(login))>>)

RepoNode(name, isArchived, isFork, pushedAt) ==
    PyDict(<<KV("name", PyStr(name)), KV("isArchived", PyBool(isArchived)),
             KV("isFork", PyBool(isFork)), KV("pushedAt", TimeNode(pushedAt))>>)

PrNode(number, createdAt, mergedAt, login, additions, deletions) ==
    PyDict(<<KV("number", PyInt(number)),
             KV("createdAt", TimeNode(createdAt)),
             KV("mergedAt", TimeNode(mergedAt)),
             KV("state", PyStr(IF mergedAt < 0 THEN "OPEN" ELSE "MERGED")),
             KV("author", AuthorNode(login)),
             KV("additions", PyInt(additions)),
             KV("deletions", PyInt(deletions))>>)

ReviewNode(login, submittedAt) ==
    PyDict(<<KV("author", AuthorNode(login)),
             KV("submittedAt", TimeNode(submittedAt)),
             KV("state", PyStr("APPROVED"))>>)

CommitNode(login, name, date, additions, deletions) ==
    PyDict(<<KV("author",
                PyDict(<<KV("user", AuthorNode(login)), KV("name", PyStr(name)),
                         KV("date", TimeNode(date))>>)),
             KV("additions", PyInt(additions)),
             KV("deletions", PyInt(deletions))>>)

\* A function's value at x, or the empty list.
At(f, x) == IF x \in DOMAIN f THEN f[x] ELSE <<>>

QueryKinds == {"repos", "prs", "reviews", "commits"}

\* What the remote answers to each of the four queries in the world w
\* (the organisation's repositories, pull requests per repository, reviews
\* per pull request, commits per repository, and the kinds of query that
\* get no answer).  history(since: $since) returns the commits from since on.
ReposRemote(w) == Listing(ReposPath, w.repos, "repos" \in w.fail)
PrsRemote(w, repo) == Listing(PrsPath, At(w.prs, repo), "prs" \in w.fail)
ReviewsRemote(w, repo, prNumber) ==
    Listing(ReviewsPath, At(w.reviews, <<repo, prNumber>>), "reviews" \in w.fail)
CommitsRemote(w, repo, since_date) ==
    LET from(c) == DateOf(DictGet(DictGet(c, "author"), "date").s) >= since_date
    IN Listing(CommitsPath, SelectSeq(At(w.commits, repo), from),
               "commits" \in w.fail)

\* d[key] = v
DictSet(d, key, v) ==
    IF HasKey(d, key)
    THEN PyDict([i \in 1..Len(d.kids) |->
                    IF d.kids[i].tag = "kv" /\ d.kids[i].s = key
                    THEN KV(key, v) ELSE d.kids[i]])
    ELSE PyDict(Append(d.kids, KV(key, v)))

\* One line of the log of a fetch_all_metrics run: a paginated fetch, the
\* executor calls it made and how many of them failed.
Logged(kind, repo, pr, st) ==
    [kind |-> kind, repo |-> repo, pr |-> pr, calls |-> Len(st.calls),
     failed |-> Cardinality({k \in 1..Len(st.got) : CallFailed(st.got[k])})]

\* Mutant: forks pass the filter.
IsActiveWithForks(r, since_date) ==
    /\ ~Truthy(DictGet(r, "isArchived"))
    /\ DateOf(DictGetOr(r, "pushedAt", PyStr("")).s) >= since_date

\* r for r in all_repos if not archived, not fork, pushedAt[:10] >= since_date
IsActive(r, since_date) ==
    /\ ~Truthy(DictGet(r, "isArchived"))
    /\ ~Truthy(DictGet(r, "isFork"))
    /\ DateOf(DictGetOr(r, "pushedAt", PyStr("")).s) >= since_date

RECURSIVE FetchPrs(_, _, _)
\* Step 3: for repo in active_repos: the PRs kept, tagged with "_repo".
FetchPrs(w, repos, since_date) ==
    IF repos = <<>> THEN [prs |-> <<>>, log |-> <<>>]
    ELSE LET repo_name == DictGet(Head(repos), "name").s
             st == fetch_all_pages(PrsRemote(w, repo_name))
             kept(pr) == DateOf(DictGetOr(pr, "createdAt", PyStr("")).s) >= since_date
             prs == SelectSeq(st.all_nodes, kept)
             rest == FetchPrs(w, Tail(repos), since_date)
         IN [prs |-> [i \in 1..Len(prs) |-> DictSet(prs[i], "_repo", PyStr(repo_name))]
                     \o rest.prs,
             log |-> <<Logged("prs", repo_name, "", st)>> \o rest.log]

RECURSIVE FetchReviews(_, _)
\* Step 4: for pr in all_prs: pr["reviews"] = {"nodes": reviews}
FetchReviews(w, prs) ==
    IF prs = <<>> THEN [prs |-> <<>>, log |-> <<>>]
    ELSE LET pr == Head(prs)
             repo == DictGet(pr, "_repo").s
             number == DictGet(pr, "number").s
             st == fetch_all_pages(ReviewsRemote(w, repo, number))
             rest == FetchReviews(w, Tail(prs))
         IN [prs |-> <<DictSet(pr, "reviews",
                               PyDict(<<KV("nodes", PyList(st.all_nodes))>>))>>
                     \o rest.prs,
             log |-> <<Logged("reviews", repo, number, st)>> \o rest.log]

RECURSIVE FetchCommits(_, _, _)
\* Step 5: for repo in active_repos: all_commits.extend(commits)
FetchCommits(w, repos, since_date) ==
    IF repos = <<>> THEN [commits |-> <<>>, log |-> <<>>]
    ELSE LET repo_name == DictGet(Head(repos), "name").s
             st == fetch_all_pages(CommitsRemote(w, repo_name, since_date))
             rest == FetchCommits(w, Tail(repos), since_date)
         IN [commits |-> st.all_nodes \o rest.commits,
             log |-> <<Logged("commits", repo_name, "", st)>> \o rest.log]


\* empty_response
empty_response ==
    PyDict(<<KV("developers", PyList(<<>>)),
             KV("daily", PyList(<<>>)),
             KV("summary",
                PyDict(<<KV("total_commits", PyInt(0)),
                         KV("total_prs", PyInt(0)),
                         KV("total_merged", PyInt(0)),
                         KV("total_reviews", PyInt(0)),
                         KV("avg_dxi_score", PyInt(0))>>))>>)

\* fetch_all_metrics(since_date, until_date) against the world w: the dict
\* it returns and the log of the paginated fetches it made, in order.
fetch_all_metrics(w, since_date, until_date) ==
    LET repos_st == fetch_all_pages(ReposRemote(w))
        repos_log == <<Logged("repos", "", "", repos_st)>>
        all_repos == repos_st.all_nodes
        active(r) == IsActive(r, since_date)
        active_repos == SelectSeq(all_repos, active)
        step3 == FetchPrs(w, active_repos, since_date)
        step4 == FetchReviews(w, step3.prs)
        step5 == FetchCommits(w, active_repos, since_date)
    IN IF all_repos = <<>> THEN [ret |-> empty_response, log |-> repos_log]
       ELSE IF active_repos = <<>> THEN [ret |-> empty_response, log |-> repos_log]
       ELSE [ret |-> process_paginated_data(step4.prs, step5.commits,
                                            since_date, until_date),
             log |-> repos_log \o step3.log \o step4.log \o step5.log]

\* Every executor call of the run failed.
EveryQueryFailed(log) ==
    \A i \in 1..Len(log) : log[i].failed = log[i].calls

-----------------------------------------------------------------------------
(* The worlds the remote may be in when a fetch runs *)

\* Times of the first sprint window (days 1..14) in hours.
Hour(day, hour) == day * HoursPerDay + hour

RepoA == RepoNode("api", FALSE, FALSE, Hour(20, 0))
RepoOld == RepoNode("attic", TRUE, FALSE, Hour(9, 0))

NoItems == [x \in {} |-> <<>>]

\* The remote answers no query.
WorldDown ==
    [repos |-> <<RepoA>>, prs |-> NoItems, reviews |-> NoItems,
     commits |-> NoItems, fail |-> QueryKinds]

\* One active repository: a merged pull request by alice reviewed by bob
\* and by a bot, a bot's pull request, and commits by alice and carol, one
\* of them in the second window.
WorldA ==
    [repos |-> <<RepoA, RepoOld>>,
     prs |-> [r \in {"api"} |->
                <<PrNode(7, Hour(3, 10), Hour(4, 10), "alice", 120, 30),
                  PrNode(6, Hour(2, 9), 0 - 1, "dependabot[bot]", 5, 5)>>],
     reviews |-> [k \in {<<"api", "7">>} |->
                <<ReviewNode("bob", Hour(3, 14)),
                  ReviewNode("dependabot[bot]", Hour(3, 11))>>],
     commits |-> [r \in {"api"} |->
                <<CommitNode("alice", "Alice", Hour(4, 10), 120, 30),
                  CommitNode("carol", "Carol", Hour(5, 8), 10, 2),
                  CommitNode("carol", "Carol", Hour(16, 8), 7, 1)>>],
     fail |-> {}]

\* The organisation has no repository pushed to since the window began.
WorldQuiet ==
    [repos |-> <<RepoOld>>, prs |-> NoItems, reviews |-> NoItems,
     commits |-> NoItems, fail |-> {}]

Worlds == {WorldDown, WorldA}

\* The sprint windows of the model: (start, end) as day ordinals.
Windows == {<<1, 14>>, <<15, 28>>}

-----------------------------------------------------------------------------
(* fetch_all_metrics and process_paginated_data, step by step *)

MaxItems == 2

\* The lists of at most MaxItems neighbouring items of a pool, the empty
\* list among them.
ListsOf(pool) ==
    {SubSeq(pool, i, j) : i \in 1..(Len(pool) + 1), j \in 0..Len(pool)}
    \cap UNION {[1..n -> {pool[k] : k \in 1..Len(pool)}] : n \in 0..MaxItems}

RepoFork == RepoNode("mirror", FALSE, TRUE, Hour(21, 0))
RepoStale == RepoNode("legacy", FALSE, FALSE, Hour(0, 5))
RepoEarly == RepoNode("docs", FALSE, FALSE, Hour(9, 0))

RepoLists ==
    {<<>>, <<RepoOld>>, <<RepoFork>>, <<RepoStale>>, <<RepoEarly>>,
     <<RepoOld, RepoFork, RepoStale>>, <<RepoA>>, <<RepoOld, RepoA>>,
     <<RepoEarly, RepoFork, RepoA>>}

\* Pull requests of the repository "api": by a developer, by a bot, by a
\* deleted account (null author) and by an account whose name only starts
\* with "[bot]"; created before, inside and after the first window; open,
\* merged inside the window and merged after its end.
PrPool ==
    <<PrNode(6, Hour(2, 9), Hour(2, 12), "dependabot[bot]", 5, 5),
      PrNode(7, Hour(3, 10), Hour(4, 10), "alice", 120, 30),
      PrNode(8, Hour(10, 0), Hour(15, 3), "alice", 40, 10),
      PrNode(9, Hour(13, 5), 0 - 1, "bob", 900, 300),
      PrNode(5, Hour(5, 0), Hour(6, 0), "", 8, 8),
      PrNode(4, Hour(0, 20), Hour(2, 0), "carol", 1, 1),
      PrNode(10, Hour(16, 0), Hour(17, 0), "[bot]x", 3, 0)>>

\* Reviews: by a developer with positive, zero and negative latency towards
\* pull request 7, after the end of the first window, not submitted; by a
\* bot and by a deleted account.
ReviewPool ==
    <<ReviewNode("dependabot[bot]", Hour(3, 11)),
      ReviewNode("bob", Hour(3, 14)),
      ReviewNode("bob", Hour(3, 10)),
      ReviewNode("carol", Hour(2, 0)),
      ReviewNode("bob", Hour(15, 1)),
      ReviewNode("", Hour(4, 0)),
      ReviewNode("carol", 0 - 1)>>

\* Commits: by developers in either window, by a bot, and by authors
\* without an account, which go by the name of the commit.
CommitPool ==
    <<CommitNode("alice", "Alice", Hour(4, 10), 120, 30),
      CommitNode("dependabot[bot]", "dependabot", Hour(4, 11), 5, 5),
      CommitNode("carol", "Carol", Hour(16, 8), 7, 1),
      CommitNode("", "Dana", Hour(5, 8), 10, 2),
      CommitNode("", "", Hour(6, 8), 1, 1),
      CommitNode("", "dependabot[bot]", Hour(7, 8), 2, 2)>>

PrKeys == {<<"api", DictGet(PrPool[i], "number").s>> : i \in 1..Len(PrPool)}

\* The worlds a fetch_all_metrics run may meet: every list of repositories
\* around the data of WorldA, with and without failing queries, and the one
\* active repository with every choice of pull requests, reviews and commits.
MetricWorlds ==
    [repos : RepoLists, prs : {WorldA.prs}, reviews : {WorldA.reviews},
     commits : {WorldA.commits}, fail : {{}, {"repos"}, {"prs", "commits"}}]
    \cup
    [repos : {<<RepoA>>},
     prs : {[r \in {"api"} |-> p] : p \in ListsOf(PrPool)},
     reviews : {[k \in PrKeys |-> r] : r \in ListsOf(ReviewPool)},
     commits : {[r \in {"api"} |-> SubSeq(CommitPool, 1, 2)]}, fail : {{}}]
    \cup
    [repos : {<<RepoA>>}, prs : {WorldA.prs}, reviews : {WorldA.reviews},
     commits : {[r \in {"api"} |-> c] : c \in ListsOf(CommitPool)},
     fail : {{}}]

\* The locals of a run at entry.
JobStart(w, window) ==
    [pc |-> "repos", world |-> w, since_date |-> window[1],
     until_date |-> window[2], all_repos |-> <<>>, active_repos |-> <<>>,
     all_prs |-> <<>>, all_commits |-> <<>>, log |-> <<>>,
     acc |-> NoStats, todo |-> <<>>, pr |-> PyNone, reviews |-> <<>>,
     ret |-> PyNone]

\* Steps 1 and 2: the repositories, filtered; without an active one the
\* empty response is returned.
ListRepos ==
    /\ job.pc = "repos"
    /\ LET st == fetch_all_pages(ReposRemote(job.world))
           active(r) == IsActive(r, job.since_date)
           active_repos == SelectSeq(st.all_nodes, active)
           nothing == st.all_nodes = <<>> \/ active_repos = <<>>
       IN job' = [job EXCEPT
             !.pc = IF nothing THEN "returned" ELSE "prs",
             !.all_repos = st.all_nodes,
             !.active_repos = active_repos,
             !.log = <<Logged("repos", "", "", st)>>,
             !.ret = IF nothing THEN empty_response ELSE PyNone]

\* Step 3: the pull requests of every active repository.
ListPrs ==
    /\ job.pc = "prs"
    /\ LET step3 == FetchPrs(job.world, job.active_repos, job.since_date)
       IN job' = [job EXCEPT !.pc = "reviews", !.all_prs = step3.prs,
                             !.log = @ \o step3.log]

\* Step 4: the reviews of every pull request kept.
ListReviews ==
    /\ job.pc = "reviews"
    /\ LET step4 == FetchReviews(job.world, job.all_prs)
       IN job' = [job EXCEPT !.pc = "commits", !.all_prs = step4.prs,
                             !.log = @ \o step4.log]

\* Mutant: the commits of every repository listed.
ListCommitsEveryRepo ==
    /\ job.pc = "commits"
    /\ LET step5 == FetchCommits(job.world, job.all_repos, job.since_date)
       IN job' = [job EXCEPT !.pc = "commit_loop",
                             !.all_commits = step5.commits,
                             !.log = @ \o step5.log,
                             !.acc = NoStats, !.todo = step5.commits]

\* Step 5: the commits of every active repository; process_paginated_data
\* is entered.
ListCommits ==
    /\ job.pc = "commits"
    /\ LET step5 == FetchCommits(job.world, job.active_repos, job.since_date)
       IN job' = [job EXCEPT !.pc = "commit_loop",
                             !.all_commits = step5.commits,
                             !.log = @ \o step5.log,
                             !.acc = NoStats, !.todo = step5.commits]

\* for commit in commits: one commit.
ProcessCommit ==
    /\ job.pc = "commit_loop" /\ job.todo # <<>>
    /\ job' = [job EXCEPT
          !.acc = CommitStep(@, Head(job.todo), job.since_date, job.until_date),
          !.todo = Tail(@)]

\* The commits are through; for pr in prs.
EndCommits ==
    /\ job.pc = "commit_loop" /\ job.todo = <<>>
    /\ job' = [job EXCEPT !.pc = "pr_loop", !.todo = job.all_prs]

\* for pr in prs: one pull request, up to its reviews.
ProcessPr ==
    /\ job.pc = "pr_loop" /\ job.todo # <<>>
    /\ LET pr == Head(job.todo)
       IN IF PrCounted(pr, job.since_date, job.until_date)
          THEN job' = [job EXCEPT !.pc = "review_loop",
                                  !.acc = PrOwn(@, pr, job.until_date),
                                  !.pr = pr, !.reviews = PrReviews(pr),
                                  !.todo = Tail(@)]
          ELSE job' = [job EXCEPT !.pr = pr, !.todo = Tail(@)]

\* for review in reviews: one review.
ProcessReview ==
    /\ job.pc = "review_loop" /\ job.reviews # <<>>
    /\ job' = [job EXCEPT
          !.acc = ReviewStep(@, Head(job.reviews),
                             DictGetOr(job.pr, "createdAt", PyStr("")),
                             job.until_date),
          !.reviews = Tail(@)]

\* The reviews are through; the next pull request.
EndReviews ==
    /\ job.pc = "review_loop" /\ job.reviews = <<>>
    /\ job' = [job EXCEPT !.pc = "pr_loop"]

\* The pull requests are through: averages, scores, sorting, the result.
Summarise ==
    /\ job.pc = "pr_loop" /\ job.todo = <<>>
    /\ job' = [job EXCEPT !.pc = "returned",
                          !.ret = ResultDict(Summarised(job.acc))]

MetricsInit ==
    /\ job \in {JobStart(w, window) : w \in MetricWorlds, window \in Windows}
    /\ scoring = NoScoring /\ sprintList = NoSprintList
    /\ tables = NoTables /\ clock = 1 /\ lastSaved = NoRows
    /\ caller = [c \in Callers |-> Idle]
    /\ req = [c \in Callers |-> NoCall]
    /\ remote = NoRemote /\ fp = NoFetch

MetricsNext ==
    \/ ListRepos \/ ListPrs \/ ListReviews \/ ListCommits
    \/ ProcessCommit \/ EndCommits
    \/ ProcessPr \/ ProcessReview \/ EndReviews
    \/ Summarise

SpecMetrics ==
    MetricsInit
    /\ [][MetricsNext
          /\ UNCHANGED <<storeVars, pageVars, req, scoring, sprintList>>]_vars

-----------------------------------------------------------------------------
(* process_paginated_data called on its own *)

\* A pull request as step 4 of fetch_all_metrics leaves it: with the list
\* of its reviews under "reviews".
WithReviews(pr, reviews) ==
    DictSet(pr, "reviews", PyDict(<<KV("nodes", PyList(reviews))>>))

\* The locals at entry of process_paginated_data(prs, commits, since_date,
\* until_date).
EnterProcess(prs, commits, window) ==
    [JobStart(WorldQuiet, window) EXCEPT
        !.pc = "commit_loop", !.all_prs = prs, !.all_commits = commits,
        !.todo = commits]

\* Every call with at most MaxItems pull requests, each with the same
\* reviews, and at most MaxItems commits, for either window: the items may
\* lie before, inside and after the window.
ProcessInit ==
    /\ job \in {EnterProcess([i \in 1..Len(prs) |-> WithReviews(prs[i], reviews)],
                             commits, window) :
                  prs \in ListsOf(PrPool), reviews \in ListsOf(ReviewPool),
                  commits \in ListsOf(CommitPool), window \in Windows}
    /\ scoring = NoScoring /\ sprintList = NoSprintList
    /\ tables = NoTables /\ clock = 1 /\ lastSaved = NoRows
    /\ caller = [c \in Callers |-> Idle]
    /\ req = [c \in Callers |-> NoCall]
    /\ remote = NoRemote /\ fp = NoFetch

ProcessNext ==
    \/ ProcessCommit \/ EndCommits
    \/ ProcessPr \/ ProcessReview \/ EndReviews
    \/ Summarise

SpecProcess ==
    ProcessInit
    /\ [][ProcessNext
          /\ UNCHANGED <<storeVars, pageVars, req, scoring, sprintList>>]_vars

-----------------------------------------------------------------------------
(* The scoring engine applied to developer metrics *)

\* Developer metrics as the routers pass them: averages that are absent,
\* zero, negative, fractional and very large, and counts likewise.
ReviewTimes ==
    {<<>>, Frac(0, 1), Frac(0 - 5, 1), Frac(3, 1), Frac(13, 2),
     Frac(1000000, 1)}
CycleTimes ==
    {<<>>, Frac(0, 1), Frac(0 - 1, 1), Frac(30, 1), Frac(1000000, 1)}
ScoringInputs ==
    [avg_review_time_hours : ReviewTimes,
     avg_cycle_time_hours : CycleTimes,
     lines_added : {0 - 500, 0, 450, 1000000},
     lines_deleted : {0, 37},
     prs_opened : {0 - 2, 0, 3},
     reviews_given : {0 - 1, 0, 3, 1000},
     commits : {0 - 1, 0, 7, 1000}]

\* A developer of a usual sprint, for the team the input is scored in.
Teammate ==
    [avg_review_time_hours |-> Frac(4, 1), avg_cycle_time_hours |-> <<>>,
     lines_added |-> 120, lines_deleted |-> 30, prs_opened |-> 1,
     reviews_given |-> 2, commits |-> 3]

\* The routers score each developer, then the team.
ScoreDeveloper ==
    /\ scoring.pc = "developer"
    /\ scoring' = [scoring EXCEPT
          !.pc = "dxi",
          !.dimension_scores = calculate_developer_dimension_scores(scoring.metrics)]

\* process_paginated_data scores the developer's composite.
ScoreDxi ==
    /\ scoring.pc = "dxi"
    /\ scoring' = [scoring EXCEPT
          !.pc = "team", !.dxi_score = calculate_dxi_score(scoring.metrics)]

ScoreTeam ==
    /\ scoring.pc = "team"
    /\ \E developers \in {<<>>, <<scoring.metrics>>,
                           <<scoring.metrics, Teammate>>} :
          scoring' = [scoring EXCEPT
             !.pc = "scored", !.developers = developers,
             !.team_dimension_scores = calculate_dimension_scores(developers)]

ScoresInit ==
    /\ scoring \in {[pc |-> "developer", metrics |-> m, developers |-> <<>>,
                      dimension_scores |-> <<>>, dxi_score |-> 0,
                      team_dimension_scores |-> <<>>] : m \in ScoringInputs}
    /\ job = NoJob /\ sprintList = NoSprintList
    /\ tables = NoTables /\ clock = 1 /\ lastSaved = NoRows
    /\ caller = [c \in Callers |-> Idle]
    /\ req = [c \in Callers |-> NoCall]
    /\ remote = NoRemote /\ fp = NoFetch

ScoresNext == ScoreDeveloper \/ ScoreDxi \/ ScoreTeam

SpecScores ==
    ScoresInit
    /\ [][ScoresNext
          /\ UNCHANGED <<storeVars, pageVars, req, job, sprintList>>]_vars

-----------------------------------------------------------------------------
(* The sprint calendar: github_service.get_sprint_dates, get_all_sprints *)

MaxLimit == 3
MaxDay == 16

\* settings.sprint_start_date ("2026-01-07", the day with ordinal 1) and
\* settings.sprint_duration_days
sprint_start_date == 1
sprint_duration_days == 14

\* Mutant: the division truncates towards zero.
get_sprint_dates_truncating(today, sprint_index) ==
    LET days_since_start == today - sprint_start_date
        current_sprint_num ==
            IF days_since_start < 0
            THEN 0 - ((0 - days_since_start) \div sprint_duration_days)
            ELSE days_since_start \div sprint_duration_days
        target_sprint == current_sprint_num + sprint_index
        sprint_start == sprint_start_date + target_sprint * sprint_duration_days
        sprint_end == sprint_start + (sprint_duration_days - 1)
    IN <<sprint_start, sprint_end>>

\* get_sprint_dates(sprint_index) on the day today = datetime.now().
get_sprint_dates(today, sprint_index) ==
    LET days_since_start == today - sprint_start_date
        current_sprint_num == days_since_start \div sprint_duration_days
        target_sprint == current_sprint_num + sprint_index
        sprint_start == sprint_start_date + target_sprint * sprint_duration_days
        sprint_end == sprint_start + (sprint_duration_days - 1)
    IN <<sprint_start, sprint_end>>

\* The dict get_all_sprints appends for the index i.
SprintEntry(today, i) ==
    LET dates == get_sprint_dates(today, i)
        start == dates[1]
        end == dates[2]
    IN [label |-> IF i = 0 THEN "Current Sprint"
                  ELSE "Sprint " \o DateText(start) \o " to " \o DateText(end),
        value |-> DateText(start) \o "|" \o DateText(end),
        start |-> start, end |-> end, is_current |-> (i = 0)]

\* for i in range(0, -limit, -1): one entry, from the clock as it reads now.
NextSprint ==
    /\ sprintList.pc = "loop" /\ sprintList.i > 0 - sprintList.limit
    /\ sprintList' = [sprintList EXCEPT
          !.sprints = Append(@, SprintEntry(sprintList.today, sprintList.i)),
          !.i = @ - 1]

\* return sprints
ReturnSprints ==
    /\ sprintList.pc = "loop" /\ sprintList.i <= 0 - sprintList.limit
    /\ sprintList' = [sprintList EXCEPT !.pc = "returned"]

\* The day ends while the call runs.
Midnight ==
    /\ sprintList.pc = "loop" /\ sprintList.today < MaxDay
    /\ sprintList' = [sprintList EXCEPT !.today = @ + 1]

SprintsInit ==
    /\ sprintList \in [pc : {"loop"}, limit : 1..MaxLimit,
                        today : (0 - 3)..MaxDay, i : {0}, sprints : {<<>>}]
    /\ job = NoJob /\ scoring = NoScoring
    /\ tables = NoTables /\ clock = 1 /\ lastSaved = NoRows
    /\ caller = [c \in Callers |-> Idle]
    /\ req = [c \in Callers |-> NoCall]
    /\ remote = NoRemote /\ fp = NoFetch

SprintsNext == NextSprint \/ ReturnSprints \/ Midnight

SpecSprints ==
    SprintsInit
    /\ [][SprintsNext
          /\ UNCHANGED <<storeVars, pageVars, req, job, scoring>>]_vars

-----------------------------------------------------------------------------
(* The store driven through its interface by two processes *)

K1 == get_sprint_key(1, 14)
K2 == <<"adhoc">>
Keys == {K1, K2}

PMetrics ==
    PyDict(<<KV("developers",
                PyList(<<PyDict(<<KV("developer", PyStr("alice")),
                                  KV("commits", PyInt(3)),
                                  KV("avg_review_time_hours", PyNone),
                                  KV("dxi_score", PyFloat("105/2"))>>)>>)),
             KV("daily", PyList(<<>>))>>)
PEmpty == PyDict(<<>>)
PNonJson == PyDict(<<KV("window", PyTuple(<<PyInt(1), PyInt(14)>>)),
                     KVInt(1, PyDate("2026-01-07"))>>)
PBadKey == PyDict(<<KVTuple("(1, 14)", PyInt(1))>>)
PCyclic == PyDict(<<KV("developers", PyList(<<>>)), KV("self", PyCycle)>>)
Payloads == {PMetrics, PEmpty, PNonJson, PBadKey, PCyclic}

\* A row written by an earlier run of the program, for a window that had
\* no activity then.
OldPayload == empty_response
OldRow(sprint_key) ==
    [sprint_start |-> KeyStart(sprint_key), sprint_end |-> KeyEnd(sprint_key),
     data_json |-> json_dumps(OldPayload),
     created_at |-> 0, updated_at |-> 0]

OldRows == [k \in {K1} |-> OldRow(k)]

\* The database file a process may find when it starts.
StartTables ==
    { NoTables,
      [t \in {"sprint_cache"} |-> OldRows],
      [t \in {"sprints"} |-> NoRows],
      [t \in {"sprints"} |-> OldRows],
      [t \in TableNames |-> IF t = "sprints" THEN NoRows ELSE OldRows] }

StoreInit ==
    /\ tables \in StartTables
    /\ clock = 1
    /\ caller = [c \in Callers |-> [Idle EXCEPT !.pc = "start"]]
    /\ lastSaved = NoRows
    /\ remote = NoRemote
    /\ fp = NoFetch
    /\ req = [c \in Callers |-> NoCall]
    /\ CalcIdle

StoreNext ==
    \E c \in Callers :
        \/ InitDb(c)
        \/ \E k \in Keys, d \in Payloads : SaveBegin(c, k, d)
        \/ SaveExec(c)
        \/ SaveError(c)
        \/ \E k \in Keys : GetSprint(c, k)
        \/ \E k \in Keys : GetError(c, k)
        \/ \E k \in Keys : DeleteSprint(c, k)
        \/ \E k \in Keys : DeleteError(c, k)
        \/ GetStoreStats(c)
        \/ StatsFail(c)
        \/ Return(c)

SpecStore ==
    StoreInit /\ [][StoreNext /\ UNCHANGED <<pageVars, req, calcVars>>]_vars

-----------------------------------------------------------------------------
(* The coordinator and the population tool over the store and the remote *)

GetMetrics == "get_metrics_for_sprint"
FetchSprint == "fetch_sprint"

\* c1 is the API server, which serves get_metrics_for_sprint; c2 is the
\* population tool, which runs fetch_sprint.
FunctionOf(c) == IF c = "c1" THEN GetMetrics ELSE FetchSprint

\* The server is asked for any window; the tool is run with --limit 1 and
\* populates the sprints of get_all_sprints(1): the current one.
WindowsOf(c) == IF c = "c1" THEN Windows ELSE {<<1, 14>>}

\* Mutant: one key for every window.
KeyOfAnyWindow(r) == get_sprint_key(1, 14)

\* sprint_key = sprint_store.get_sprint_key(start, end)
KeyOf(r) == get_sprint_key(r.start, r.end)

\* Mutant: the stored data is never taken.
CacheHitNever(fn, stored) == FALSE

\* get_metrics_for_sprint: "if stored"; fetch_sprint: "if existing and
\* existing.get('developers')".
CacheHit(fn, stored) ==
    IF fn = GetMetrics THEN Truthy(stored)
    ELSE Truthy(stored) /\ Truthy(DictGet(stored, "developers"))

\* What the call returns on a hit and after a fetch.
SkippedReport == PyDict(<<KV("status", PyStr("skipped")), KV("dev_count", PyInt(0))>>)
FetchedReport(metrics) ==
    PyDict(<<KV("status", PyStr("fetched")),
             KV("dev_count",
                PyInt(Len(DictGetOr(metrics, "developers", PyList(<<>>)).kids)))>>)

\* The results of fetch_all_metrics for the worlds and windows of the model.
Runs ==
    [w \in Worlds, window \in Windows |->
        fetch_all_metrics(w, window[1], window[2])]

\* The function is entered (the answer of an earlier call is dropped): the
\* key is computed; force skips the read.
Call(c, fn, window, force) ==
    /\ req[c].pc \in {"idle", "done"}
    /\ caller[c].pc \in {"idle", "ret"}
    /\ req' = [req EXCEPT ![c] =
          [NoCall EXCEPT !.fn = fn, !.start = window[1], !.end = window[2],
                         !.force = force,
                         !.pc = IF force THEN "fetch" ELSE "read"]]
    /\ caller' = [caller EXCEPT ![c] = Idle]
    /\ UNCHANGED <<tables, clock, lastSaved>>

\* stored = sprint_store.get_sprint(sprint_key), and the test of it: on a
\* hit the function returns (fetch_sprint: its "skipped" report).
ReadStore(c) ==
    /\ req[c].pc = "read"
    /\ GetSprint(c, KeyOf(req[c])) \/ GetError(c, KeyOf(req[c]))
    /\ LET stored == caller'[c].ret
           hit == CacheHit(req[c].fn, stored)
       IN req' = [req EXCEPT
             ![c].pc = IF hit THEN "done" ELSE "fetch",
             ![c].ret = IF ~hit THEN PyNone
                        ELSE IF req[c].fn = GetMetrics THEN stored
                        ELSE SkippedReport]

\* Mutant: a call takes the result of a fetch already made for its window
\* by a call in progress.
FetchDeduplicated(c) ==
    /\ req[c].pc = "fetch"
    /\ LET shared == {o \in Callers \ {c} :
                        /\ req[o].pc \in {"save", "saving"}
                        /\ KeyOf(req[o]) = KeyOf(req[c])}
       IN IF shared # {}
          THEN \E o \in shared :
                  req' = [req EXCEPT ![c].pc = "save",
                                     ![c].metrics = req[o].metrics,
                                     ![c].log = req[o].log]
          ELSE \E w \in Worlds :
                  LET run == Runs[w, <<req[c].start, req[c].end>>]
                  IN req' = [req EXCEPT ![c].pc = "save",
                                        ![c].metrics = run.ret,
                                        ![c].log = run.log,
                                        ![c].fetches = @ + 1]
    /\ caller' = [caller EXCEPT ![c] = Idle]
    /\ UNCHANGED <<tables, clock, lastSaved>>

\* metrics = fetch_all_metrics(start_date, end_date)
Fetch(c) ==
    /\ req[c].pc = "fetch"
    /\ \E w \in Worlds :
          LET run == Runs[w, <<req[c].start, req[c].end>>]
          IN req' = [req EXCEPT ![c].pc = "save", ![c].metrics = run.ret,
                                ![c].log = run.log, ![c].fetches = @ + 1]
    /\ caller' = [caller EXCEPT ![c] = Idle]
    /\ UNCHANGED <<tables, clock, lastSaved>>

\* sprint_store.save_sprint(sprint_key, metrics): the call is made
Save(c) ==
    /\ req[c].pc = "save"
    /\ SaveBegin(c, KeyOf(req[c]), req[c].metrics)
    /\ req' = [req EXCEPT ![c].pc = "saving"]

\* ... runs its statement, or fails and swallows the error
Commit(c) == SaveExec(c) /\ UNCHANGED req
CommitFails(c) == SaveError(c) /\ UNCHANGED req

\* ... and returns; the function returns metrics (fetch_sprint: its report).
Finish(c) ==
    /\ req[c].pc = "saving" /\ caller[c].pc = "ret"
    /\ req' = [req EXCEPT ![c].pc = "done",
                          ![c].ret = IF req[c].fn = GetMetrics
                                     THEN req[c].metrics
                                     ELSE FetchedReport(req[c].metrics)]
    /\ UNCHANGED storeVars

\* The process starts: _init_db().
Startup(c) == InitDb(c) /\ UNCHANGED req

Init ==
    /\ tables \in StartTables
    /\ clock = 1
    /\ caller = [c \in Callers |-> [Idle EXCEPT !.pc = "start"]]
    /\ lastSaved = NoRows
    /\ remote = NoRemote
    /\ fp = NoFetch
    /\ req = [c \in Callers |-> NoCall]
    /\ CalcIdle

Next ==
    \E c \in Callers :
        \/ Startup(c)
        \/ \E w \in WindowsOf(c), force \in BOOLEAN :
              Call(c, FunctionOf(c), w, force)
        \/ ReadStore(c)
        \/ Fetch(c)
        \/ Save(c)
        \/ Commit(c)
        \/ CommitFails(c)
        \/ Finish(c)

Spec == Init /\ [][Next /\ UNCHANGED <<pageVars, calcVars>>]_vars

-----------------------------------------------------------------------------
(* The store's operations statement by statement, with their connections *)

StoreOps == {"get_sprint", "delete_sprint", "get_store_stats"}

\* get_sprint, delete_sprint or get_store_stats is entered: "try:".
EnterOp(c, op, key) ==
    /\ caller[c].pc = "idle"
    /\ caller' = [caller EXCEPT ![c] =
          [Idle EXCEPT !.pc = "connect", !.op = op,
                       !.key = IF op = "get_store_stats" THEN <<>> ELSE key,
                       !.conn = caller[c].conn]]
    /\ UNCHANGED <<tables, clock, lastSaved>>

\* _init_db is entered by a process that starts.
EnterInitDb(c) ==
    /\ caller[c].pc = "start"
    /\ caller' = [caller EXCEPT ![c] =
          [Idle EXCEPT !.pc = "connect", !.op = "_init_db",
                       !.conn = caller[c].conn]]
    /\ UNCHANGED <<tables, clock, lastSaved>>

\* _get_connection up to its yield: sqlite3.connect returns a connection.
OpenConnection(c) ==
    /\ caller[c].pc \in {"connect", "save_exec"}
    /\ caller' = [caller EXCEPT ![c].pc = "with", ![c].conn = @ + 1,
                                ![c].opened = @ + 1]
    /\ UNCHANGED <<tables, clock, lastSaved>>

\* sqlite3.connect raises (the file cannot be opened): no connection exists.
ConnectFails(c) ==
    /\ caller[c].pc \in {"connect", "save_exec"}
    /\ caller' = [caller EXCEPT ![c].pc = "except", ![c].err = TRUE]
    /\ UNCHANGED <<tables, clock, lastSaved>>

\* The body of the with statement runs to its end or to its return.
WithBody(c) ==
    /\ caller[c].pc = "with"
    /\ LET op == caller[c].op
           key == caller[c].key
       IN /\ IF op = "_init_db" THEN ~InitDbRaises(tables)
             ELSE "sprints" \in DOMAIN tables
          /\ tables' =
                CASE op = "_init_db" -> InitDbTables(tables)
                  [] op = "save_sprint" ->
                       [tables EXCEPT !["sprints"] =
                          InsertOrReplace(@, key, caller[c].json, caller[c].now)]
                  [] op = "delete_sprint" ->
                       [tables EXCEPT !["sprints"] = DeleteFrom(@, key)]
                  [] OTHER -> tables
          /\ lastSaved' =
                CASE op = "save_sprint" -> Put(lastSaved, key, caller[c].data)
                  [] op = "delete_sprint" -> Drop(lastSaved, key)
                  [] OTHER -> lastSaved
          /\ \E o \in StatsOrders(Rows) :
                caller' = [caller EXCEPT
                   ![c].pc = "finally",
                   ![c].ret = CASE op = "get_sprint" -> SelectPayload(Rows, key)
                                [] op = "get_store_stats" -> StatsOf(Rows, o)
                                [] OTHER -> PyNone]
    /\ UNCHANGED clock

\* A statement of the body raises: sqlite3.Error (in _init_db also the
\* rename onto an existing table), or json.JSONDecodeError in get_sprint.
WithBodyRaises(c) ==
    /\ caller[c].pc = "with"
    /\ caller' = [caller EXCEPT ![c].pc = "finally", ![c].err = TRUE]
    /\ UNCHANGED <<tables, clock, lastSaved>>

\* Mutant: the connection is closed after the yield, without try/finally.
CloseAfterYield(c) ==
    /\ caller[c].pc = "finally"
    /\ caller' = [caller EXCEPT
          ![c].pc = IF caller[c].err THEN "except" ELSE "ret",
          ![c].conn = IF caller[c].err THEN @ ELSE @ - 1]
    /\ UNCHANGED <<tables, clock, lastSaved>>

\* _get_connection after its yield: "finally: conn.close()", on the way
\* out of the with statement, normal or not.
CloseConnection(c) ==
    /\ caller[c].pc = "finally"
    /\ caller' = [caller EXCEPT
          ![c].pc = IF caller[c].err THEN "except" ELSE "ret",
          ![c].conn = @ - 1]
    /\ UNCHANGED <<tables, clock, lastSaved>>

\* The except clause of the operation: the error is swallowed; _init_db has
\* none and its error leaves the function.
HandleError(c) ==
    /\ caller[c].pc = "except"
    /\ caller' = [caller EXCEPT
          ![c].pc = IF caller[c].op = "_init_db" THEN "crashed" ELSE "ret",
          ![c].ret = IF caller[c].op = "get_store_stats" THEN StatsError
                     ELSE PyNone]
    /\ UNCHANGED <<tables, clock, lastSaved>>

ConnInit ==
    /\ tables \in StartTables
    /\ clock = 1
    /\ caller = [c \in Callers |-> [Idle EXCEPT !.pc = "start"]]
    /\ lastSaved = NoRows
    /\ remote = NoRemote
    /\ fp = NoFetch
    /\ req = [c \in Callers |-> NoCall]
    /\ CalcIdle

ConnNext ==
    \E c \in Callers :
        \/ EnterInitDb(c)
        \/ \E op \in StoreOps : EnterOp(c, op, K1)
        \/ \E d \in {PMetrics, PBadKey} : SaveBegin(c, K1, d)
        \/ OpenConnection(c)
        \/ ConnectFails(c)
        \/ WithBody(c)
        \/ WithBodyRaises(c)
        \/ CloseConnection(c)
        \/ HandleError(c)
        \/ Return(c)

SpecConn ==
    ConnInit /\ [][ConnNext /\ UNCHANGED <<pageVars, req, calcVars>>]_vars

\* routers.sprints.ensure_dimension_scores: a developer of the payload
\* fails the test '"dimension_scores" in dev' and has its scores computed.
Backfills(metrics) ==
    LET developers == DictGetOr(metrics, "developers", PyList(<<>>)).kids
    IN \E i \in 1..Len(developers) : ~HasKey(developers[i], "dimension_scores")

-----------------------------------------------------------------------------
(* Two requests with force_refresh=true served at once *)

\* c1 and c2 are two server processes over one database file, each serving
\* GET /sprints/{start}/{end}/metrics?force_refresh=true for the first
\* window, any number of times.  Each initialised the store when it started.
RefreshInit ==
    /\ tables \in {[t \in {"sprints"} |-> NoRows],
                   [t \in {"sprints"} |-> OldRows]}
    /\ clock = 1
    /\ caller = [c \in Callers |-> Idle]
    /\ lastSaved = NoRows
    /\ remote = NoRemote
    /\ fp = NoFetch
    /\ req = [c \in Callers |-> NoCall]
    /\ CalcIdle

RefreshNext ==
    \E c \in Callers :
        \/ Call(c, GetMetrics, <<1, 14>>, TRUE)
        \/ Fetch(c)
        \/ Save(c)
        \/ Commit(c)
        \/ CommitFails(c)
        \/ Finish(c)

SpecRefresh ==
    RefreshInit /\ [][RefreshNext /\ UNCHANGED <<pageVars, calcVars>>]_vars

-----------------------------------------------------------------------------
(* The population tool's worker pool *)

\* c1 and c2 are two threads of the tool's ThreadPoolExecutor.  main has
\* run _init_db and submits fetch_sprint(sprint, args.force) for each sprint
\* of get_all_sprints: the first window to c1, the second to c2.
WindowOfWorker(c) == IF c = "c1" THEN <<1, 14>> ELSE <<15, 28>>

\* executor.submit(fetch_sprint, sprint, args.force): one call per sprint,
\* all with the force of the run.
Submit(c, force) ==
    /\ req[c].pc = "idle"
    /\ \A o \in Callers : req[o].pc = "idle" \/ req[o].force = force
    /\ Call(c, FetchSprint, WindowOfWorker(c), force)

PoolInit ==
    /\ tables \in {[t \in {"sprints"} |-> NoRows],
                   [t \in {"sprints"} |-> OldRows]}
    /\ clock = 1
    /\ caller = [c \in Callers |-> Idle]
    /\ lastSaved = NoRows
    /\ remote = NoRemote
    /\ fp = NoFetch
    /\ req = [c \in Callers |-> NoCall]
    /\ CalcIdle

PoolNext ==
    \E c \in Callers :
        \/ \E force \in BOOLEAN : Submit(c, force)
        \/ ReadStore(c)
        \/ Fetch(c)
        \/ Save(c)
        \/ Commit(c)
        \/ CommitFails(c)
        \/ Finish(c)

SpecPool ==
    PoolInit /\ [][PoolNext /\ UNCHANGED <<pageVars, calcVars>>]_vars

-----------------------------------------------------------------------------
(* Steps of the store's callers, for the properties below *)

\* Caller c's get_sprint returns in this step, its SELECT having run.
GetReturns(c) ==
    /\ caller[c].pc = "idle" /\ caller'[c].pc = "ret"
    /\ caller'[c].op = "get_sprint" /\ ~caller'[c].err

\* Caller c's save_sprint commits in this step.
SaveCommits(c) ==
    /\ caller[c].pc = "save_exec" /\ caller'[c].pc = "ret" /\ ~caller'[c].err

\* Caller c's delete_sprint commits in this step.
DeleteCommits(c) ==
    /\ caller[c].pc = "idle" /\ caller'[c].pc = "ret"
    /\ caller'[c].op = "delete_sprint" /\ ~caller'[c].err

\* C1: a get_sprint(key) that follows a committed save_sprint(key, payload)
\* of a JSON-representable payload, with no later committed save or delete
\* of that key, returns a payload equal to the one saved, whatever was saved
\* or deleted before.
C1_SaveThenGet ==
    [][\A c \in Callers :
         (/\ GetReturns(c)
          /\ caller'[c].key \in DOMAIN lastSaved
          /\ IsJson(lastSaved[caller'[c].key]))
         => caller'[c].ret = lastSaved[caller'[c].key]]_vars

\* A get has returned the metrics payload of a key that was saved twice.
C1_Witness ==
    \E c \in Callers :
        /\ caller[c].pc = "ret" /\ caller[c].op = "get_sprint" /\ ~caller[c].err
        /\ caller[c].key \in DOMAIN lastSaved \cap DOMAIN Rows
        /\ caller[c].ret = PMetrics
        /\ lastSaved[caller[c].key] = PMetrics
        /\ Rows[caller[c].key].created_at < Rows[caller[c].key].updated_at

\* C2: created_at is first-write-wins: a row keeps its created_at for as
\* long as it exists, and a row that a save creates gets that save's
\* timestamp.
C2_CreatedAtFirstWriteWins ==
    [][\A k \in Keys :
         /\ (k \in DOMAIN Rows /\ k \in DOMAIN Rows')
                => Rows'[k].created_at = Rows[k].created_at
         /\ (\E c \in Callers : SaveCommits(c) /\ caller[c].key = k
                                  /\ k \notin DOMAIN Rows)
                => \E c \in Callers :
                      /\ SaveCommits(c) /\ caller[c].key = k
                      /\ k \in DOMAIN Rows'
                      /\ Rows'[k].created_at = caller[c].now]_vars

\* A key saved twice by this run: created at the first save, updated later.
C2_Witness ==
    \E k \in DOMAIN Rows \cap DOMAIN lastSaved :
        /\ Rows[k].created_at >= 1
        /\ Rows[k].updated_at > Rows[k].created_at

\* C3: every save_sprint that commits on a key that already has a row
\* leaves updated_at strictly greater than it was.
C3_UpdatedAtAdvances ==
    [][\A c \in Callers :
         (SaveCommits(c) /\ caller[c].key \in DOMAIN Rows)
         => Rows'[caller[c].key].updated_at > Rows[caller[c].key].updated_at
      ]_vars

\* C7: a row leaves the table only in a step that commits delete_sprint of
\* its key, and get_sprint returns a payload exactly while the key has a row.
C7_EntriesNeverExpire ==
    [][/\ \A k \in DOMAIN Rows :
            k \notin DOMAIN Rows'
            => \E c \in Callers : DeleteCommits(c) /\ caller'[c].key = k
       /\ \A c \in Callers :
            GetReturns(c)
            => (caller'[c].ret # PyNone <=> caller'[c].key \in DOMAIN Rows)
       /\ \A c \in Callers :
            DeleteCommits(c) => caller'[c].key \notin DOMAIN Rows'
      ]_vars

\* A get returns the payload of a row saved before the latest save of the
\* run, while the other key has no row.
C7_Witness ==
    \E c \in Callers :
        /\ caller[c].pc = "ret" /\ caller[c].op = "get_sprint" /\ ~caller[c].err
        /\ caller[c].ret # PyNone
        /\ caller[c].key \in DOMAIN lastSaved \cap DOMAIN Rows
        /\ Rows[caller[c].key].updated_at + 1 < clock
        /\ \E k \in Keys : k \notin DOMAIN Rows

\* C20: a failure of the storage engine or of the serialisation inside
\* get_sprint, save_sprint or delete_sprint does not reach the caller: the
\* call returns (get_sprint: None) and every table is as it was.
C20_FailuresSwallowed ==
    [][\A c \in Callers :
         (/\ caller'[c].err /\ ~caller[c].err
          /\ caller'[c].op \in {"get_sprint", "save_sprint", "delete_sprint"})
         => /\ caller'[c].pc = "ret"
            /\ caller'[c].ret = PyNone
            /\ tables' = tables]_vars

\* C23: whatever tables the database has when a process starts, _init_db
\* completes without error and leaves the table sprints and no table
\* sprint_cache, every row of the legacy table being a row of sprints.
C23_InitDbMigrates ==
    [][\A c \in Callers :
         (caller[c].pc = "start" /\ caller'[c].pc # "start")
         => /\ caller'[c].pc = "idle"
            /\ DOMAIN tables' = {"sprints"}
            /\ "sprint_cache" \in DOMAIN tables
                  => \A k \in DOMAIN tables["sprint_cache"] :
                        /\ k \in DOMAIN Rows'
                        /\ Rows'[k] = tables["sprint_cache"][k]]_vars

-----------------------------------------------------------------------------
(* Properties of fetch_all_pages *)

\* C9: fetch_all_pages terminates whatever the remote answers (also when it
\* always says hasNextPage=true or never returns an endCursor), and calls
\* the executor at most max_pages_per_query times.
C9_TerminatesWithinCeiling ==
    /\ <>(fp.pc \in {"done", "raised"})
    /\ [](Len(fp.calls) <= max_pages_per_query)

\* The ceiling ended a call against a remote that never stops.
C9_Witness ==
    /\ fp.pc = "done" /\ remote.runaway /\ remote.nocursor
    /\ Len(fp.calls) = max_pages_per_query
    /\ fp.pages_fetched = max_pages_per_query

RECURSIVE ServedNodes(_)
\* The nodes the remote served in the first n calls, in call order.
ServedNodes(n) ==
    IF n = 0 THEN <<>>
    ELSE ServedNodes(n - 1) \o PageNodes(remote, PageAfter(fp.calls[n]))

\* C10: when call k fails after k-1 pages were fetched, fetch_all_pages
\* returns (does not raise) exactly the nodes of those k-1 pages in order,
\* and the failed call is its last.
C10_PartialResult ==
    \A k \in 1..Len(fp.got) :
        CallFailed(fp.got[k])
        => /\ k = Len(fp.got) /\ Len(fp.calls) = k
           /\ fp.pc \in {"result", "done"}
           /\ fp.all_nodes = ServedNodes(k - 1)

\* The third or a later call failed after pages with nodes were fetched.
C10_Witness ==
    /\ fp.pc = "done" /\ Len(fp.got) >= 3
    /\ CallFailed(fp.got[Len(fp.got)])
    /\ Len(fp.all_nodes) >= 2 * NodesPerPage

RECURSIVE AllPages(_)
\* The nodes of the remote's pages 1..n, in order.
AllPages(n) == IF n = 0 THEN <<>> ELSE AllPages(n - 1) \o PageNodes(remote, n)

\* The endCursor of the pageInfo a response carries.
EndCursorOf(result) ==
    DictGet(DictGet(Walk(DictGet(result, "data"), fp.path), "pageInfo"),
            "endCursor")

\* The remote has no more pages than the ceiling, says so, returns cursors
\* and answers every call.
WellBehaved ==
    /\ remote.failAt = 0 /\ ~remote.runaway /\ ~remote.nocursor
    /\ remote.pages <= max_pages_per_query

\* The pages the remote serves the resource in: an empty resource is served
\* as one page without nodes.
PagesServed == IF remote.pages = 0 THEN 1 ELSE remote.pages

\* C11: against a remote that serves the resource in n pages, n not above
\* the ceiling, and fails no call, fetch_all_pages makes its first call
\* without a cursor and every further call with the endCursor of the
\* response before it, makes n calls in all, and returns the nodes of pages
\* 1..n in order.
C11_AllPagesInOrder ==
    WellBehaved
    => /\ fp.pc # "raised"
       /\ Len(fp.calls) <= PagesServed
       /\ Len(fp.calls) >= 1 => fp.calls[1] = PyNone
       /\ \A i \in 1..(Len(fp.calls) - 1) :
             fp.calls[i + 1] = EndCursorOf(fp.got[i])
       /\ fp.pc = "done"
             => /\ Len(fp.calls) = PagesServed
                /\ fp.all_nodes = AllPages(PagesServed)

\* A resource of as many pages as the ceiling allows was fetched whole.
C11_Witness ==
    /\ WellBehaved /\ fp.pc = "done"
    /\ remote.pages = max_pages_per_query /\ remote.emptyAt = 0
    /\ Len(fp.calls) = max_pages_per_query
    /\ Len(fp.all_nodes) = max_pages_per_query * NodesPerPage

RECURSIVE PathStops(_, _)
\* The dict d lacks a key of the path, or holds null for it.
PathStops(d, path) ==
    /\ path # <<>>
    /\ \/ ~HasKey(d, Head(path))
       \/ DictGet(d, Head(path)) = PyNone
       \/ PathStops(DictGet(d, Head(path)), Tail(path))

\* The response has "data", and the connection path stops inside it.
LacksConnection(result) ==
    /\ result # PyNone /\ HasKey(result, "data")
    /\ DictGet(result, "data") # PyNone
    /\ PathStops(DictGet(result, "data"), fp.path)

\* C12: when the response to call k lacks a key of the connection path, or
\* holds null for it, fetch_all_pages adds no nodes, makes no further call
\* and returns (does not raise) the nodes of the k-1 pages before it.
C12_MissingPathEndsQuietly ==
    \A k \in 1..Len(fp.got) :
        LacksConnection(fp.got[k])
        => /\ k = Len(fp.got) /\ Len(fp.calls) = k
           /\ fp.pc \in {"result", "connection", "done"}
           /\ fp.all_nodes = ServedNodes(k - 1)

\* The third or a later response held null for the last key of a path of
\* four keys, after pages with nodes were fetched.
C12_Witness ==
    /\ fp.pc = "done" /\ Len(fp.got) >= 3
    /\ LacksConnection(fp.got[Len(fp.got)])
    /\ remote.failKind = "nullpath" /\ remote.depth = Len(CommitsPath)
    /\ Len(fp.all_nodes) >= 2 * NodesPerPage

-----------------------------------------------------------------------------
(* Properties of fetch_all_metrics and process_paginated_data *)

\* What the statistics hold for a login and for a date.
DevStat(acc, login, field) ==
    IF \E i \in 1..Len(acc.devs) : acc.devs[i].login = login
    THEN acc.devs[DevIndex(acc.devs, login)][field]
    ELSE NewDev(login)[field]
DayStat(acc, date, field) ==
    IF date \in DOMAIN acc.daily THEN acc.daily[date][field] ELSE 0

\* The login a node names (a null author has none), and whether it is one
\* the aggregation is to leave out: none, empty, or ending with "[bot]".
LoginOf(author) == IF author = PyNone THEN "" ELSE DictGet(author, "login").s
CommitLogin(commit) ==
    LET author == DictGet(commit, "author")
    IN IF LoginOf(DictGet(author, "user")) # ""
       THEN LoginOf(DictGet(author, "user"))
       ELSE DictGet(author, "name").s
LeftOut(login) == login = "" \/ login \in {"dependabot[bot]"}

\* The time a node carries under a key, in hours, and its day.
HoursAt(node, key) == ParseInt(DictGet(node, key).s)
DayAt(node, key) == HoursAt(node, key) \div HoursPerDay

\* No repository of the organisation is active: each is archived, a fork,
\* or was last pushed to before the window.
NoneActive ==
    \A i \in 1..Len(job.all_repos) :
        \/ DictGet(job.all_repos[i], "isArchived") = PyBool(TRUE)
        \/ DictGet(job.all_repos[i], "isFork") = PyBool(TRUE)
        \/ DayAt(job.all_repos[i], "pushedAt") < job.since_date

\* C13: when the repository query returns no repository, or none that is
\* active, fetch_all_metrics returns developers = [], daily = [] and a
\* summary of zeros, having made no pull-request, review or commit query.
C13_NoActiveRepoEmptyResult ==
    (job.pc \notin {"off", "repos"} /\ NoneActive)
    => /\ job.pc = "returned"
       /\ DictGet(job.ret, "developers") = PyList(<<>>)
       /\ DictGet(job.ret, "daily") = PyList(<<>>)
       /\ \A key \in {"total_commits", "total_prs", "total_merged",
                       "total_reviews", "avg_dxi_score"} :
             DictGet(DictGet(job.ret, "summary"), key) = PyInt(0)
       /\ \A i \in 1..Len(job.log) : job.log[i].kind = "repos"

\* The run returned with an archived repository, a fork and a repository
\* not pushed to since the window began.
C13_Witness ==
    /\ job.pc = "returned" /\ Len(job.all_repos) = 3 /\ NoneActive
    /\ job.ret = empty_response

\* The input without what is attributed to logins that are left out:
\* their commits, their pull requests, and their reviews of the others.
CleanCommits(commits) ==
    LET kept(c) == ~LeftOut(CommitLogin(c)) IN SelectSeq(commits, kept)
CleanPrs(prs) ==
    LET kept(pr) == ~LeftOut(LoginOf(DictGet(pr, "author")))
        human(r) == ~LeftOut(LoginOf(DictGet(r, "author")))
        mine == SelectSeq(prs, kept)
    IN [i \in 1..Len(mine) |->
          DictSet(mine[i], "reviews",
                  PyDict(<<KV("nodes",
                              PyList(SelectSeq(PrReviews(mine[i]), human)))>>))]

\* C14: bot exclusion.  No login that is empty or ends with "[bot]" is among
\* the developers of the result, and the result is the one the input gives
\* without the commits, pull requests and reviews of such logins.
C14_BotsExcluded ==
    (job.pc = "returned" /\ job.active_repos # <<>>)
    => /\ \A i \in 1..Len(DictGet(job.ret, "developers").kids) :
             ~LeftOut(DictGet(DictGet(job.ret, "developers").kids[i],
                              "developer").s)
       /\ job.ret = process_paginated_data(CleanPrs(job.all_prs),
                                           CleanCommits(job.all_commits),
                                           job.since_date, job.until_date)

\* A result with developers from an input with a bot's pull request, a
\* bot's review of a developer's pull request, and a bot's commit.
C14_Witness ==
    /\ job.pc = "returned"
    /\ Len(DictGet(job.ret, "developers").kids) >= 2
    /\ \E i \in 1..Len(job.all_prs) :
          LoginOf(DictGet(job.all_prs[i], "author")) = "dependabot[bot]"
    /\ \E i \in 1..Len(job.all_prs) :
          /\ LoginOf(DictGet(job.all_prs[i], "author")) = "alice"
          /\ \E j \in 1..Len(PrReviews(job.all_prs[i])) :
                LoginOf(DictGet(PrReviews(job.all_prs[i])[j], "author"))
                    = "dependabot[bot]"
    /\ \E i \in 1..Len(job.all_commits) :
          CommitLogin(job.all_commits[i]) = "dependabot[bot]"

\* The step in which the loop takes the next pull request.
PrTaken == job.pc = "pr_loop" /\ job.todo # <<>> /\ job' # job

\* C15: a pull request by a developer, created inside the window, adds one
\* to its author's and to its creation day's prs_opened.  Merged on or
\* before window.end, it adds one to prs_merged of the author and of the
\* merge day, and one cycle-time sample; merged after window.end (or not
\* merged), it adds to no prs_merged and adds no sample.
C15_MergedAfterEndNotCounted ==
    [][PrTaken =>
        LET pr == Head(job.todo)
            login == LoginOf(DictGet(pr, "author"))
            created == DayAt(pr, "createdAt")
            merged == DictGet(pr, "mergedAt") # PyNone
                      /\ DayAt(pr, "mergedAt") <= job.until_date
        IN (/\ ~LeftOut(login)
            /\ created >= job.since_date /\ created <= job.until_date)
           => /\ DevStat(job'.acc, login, "prs_opened")
                    = DevStat(job.acc, login, "prs_opened") + 1
              /\ DayStat(job'.acc, created, "prs_opened")
                    = DayStat(job.acc, created, "prs_opened") + 1
              /\ merged
                    => /\ DevStat(job'.acc, login, "prs_merged")
                             = DevStat(job.acc, login, "prs_merged") + 1
                       /\ DayStat(job'.acc, DayAt(pr, "mergedAt"), "prs_merged")
                             = DayStat(job.acc, DayAt(pr, "mergedAt"),
                                       "prs_merged") + 1
                       /\ Len(DevStat(job'.acc, login, "cycle_times"))
                             = Len(DevStat(job.acc, login, "cycle_times")) + 1
              /\ ~merged
                    => /\ DevStat(job'.acc, login, "prs_merged")
                             = DevStat(job.acc, login, "prs_merged")
                       /\ \A d \in DOMAIN job'.acc.daily :
                             DayStat(job'.acc, d, "prs_merged")
                                 = DayStat(job.acc, d, "prs_merged")
                       /\ DevStat(job'.acc, login, "cycle_times")
                             = DevStat(job.acc, login, "cycle_times")]_vars

\* alice's pull request 8, merged the day after the window ended, was taken
\* after her pull request 7, merged inside the window.
C15_Witness ==
    /\ job.pc = "review_loop" /\ job.until_date = 14
    /\ DictGet(job.pr, "number") = PyInt(8)
    /\ DayAt(job.pr, "mergedAt") = 15
    /\ DevStat(job.acc, "alice", "prs_opened") = 2
    /\ DevStat(job.acc, "alice", "prs_merged") = 1
    /\ Len(DevStat(job.acc, "alice", "cycle_times")) = 1

\* The step in which the loop takes the next review of the pull request.
ReviewTaken == job.pc = "review_loop" /\ job.reviews # <<>> /\ job' # job

\* C16: a review is counted only if it was submitted on or before
\* window.end, and a developer's review submitted by then is counted: one
\* more reviews_given for the reviewer and for the day.  A counted review
\* adds its latency in hours as one review-time sample when the latency is
\* positive, and no sample when it is zero or negative.
C16_ReviewCounting ==
    [][ReviewTaken =>
        LET review == Head(job.reviews)
            login == LoginOf(DictGet(review, "author"))
            submitted == DictGet(review, "submittedAt") # PyNone
            day == DayAt(review, "submittedAt")
            latency == HoursAt(review, "submittedAt") - HoursAt(job.pr, "createdAt")
        IN /\ job'.acc # job.acc => submitted /\ day <= job.until_date
           /\ (~LeftOut(login) /\ submitted /\ day <= job.until_date)
              => /\ DevStat(job'.acc, login, "reviews_given")
                       = DevStat(job.acc, login, "reviews_given") + 1
                 /\ DayStat(job'.acc, day, "reviews_given")
                       = DayStat(job.acc, day, "reviews_given") + 1
                 /\ DevStat(job'.acc, login, "review_times")
                       = IF latency > 0
                         THEN Append(DevStat(job.acc, login, "review_times"),
                                     latency)
                         ELSE DevStat(job.acc, login, "review_times")]_vars

\* bob reviewed pull request 7 four hours after it was created and in the
\* hour it was created: two reviews counted, one sample of 4 hours.
C16_Witness ==
    /\ job.pc = "review_loop" /\ job.reviews = <<>>
    /\ DictGet(job.pr, "number") = PyInt(7)
    /\ DevStat(job.acc, "bob", "reviews_given") = 2
    /\ DevStat(job.acc, "bob", "review_times") = <<4>>

\* The pull requests the remote lists for the active repositories.
RECURSIVE ServedPrs(_, _)
ServedPrs(w, repos) ==
    IF repos = <<>> \/ "prs" \in w.fail THEN <<>>
    ELSE At(w.prs, DictGet(Head(repos), "name").s) \o ServedPrs(w, Tail(repos))

\* The pull request was created on a day of the window.
CreatedInWindow(pr) ==
    LET created_date == DateOf(DictGet(pr, "createdAt").s)
    IN job.since_date <= created_date /\ created_date <= job.until_date

\* The entries of the log for the queries of one kind.
Queries(kind) == LET of_kind(e) == e.kind = kind IN SelectSeq(job.log, of_kind)

\* C28: fetch_all_metrics keeps the pull requests created within
\* [since_date, until_date], and only those, and fetches the reviews of
\* each of them and of no other: every review query is for a pull request
\* created in the window, and there are as many review queries as pull
\* requests created in the window.
C28_ReviewsOnlyInWindow ==
    job.pc \notin {"repos", "prs", "reviews"}
    => LET served == ServedPrs(job.world, job.active_repos)
           asked == Queries("reviews")
       IN /\ \A i \in 1..Len(job.all_prs) : CreatedInWindow(job.all_prs[i])
          /\ \A i \in 1..Len(asked) :
                \E j \in 1..Len(served) :
                   /\ DictGet(served[j], "number").s = asked[i].pr
                   /\ CreatedInWindow(served[j])
          /\ Len(asked)
                = Cardinality({j \in 1..Len(served) : CreatedInWindow(served[j])})

\* The names of the repositories the remote lists that are not archived,
\* not forks, and pushed to on or after since_date, in the order listed.
ActiveNames ==
    LET listed == IF "repos" \in job.world.fail THEN <<>> ELSE job.world.repos
        active(r) ==
            /\ DictGet(r, "isArchived") = PyBool(FALSE)
            /\ DictGet(r, "isFork") = PyBool(FALSE)
            /\ DateOf(DictGet(r, "pushedAt").s) >= job.since_date
        kept == SelectSeq(listed, active)
    IN [i \in 1..Len(kept) |-> DictGet(kept[i], "name").s]

\* The paginated fetches made so far: kind, repository, pull request.
FetchesMade == [i \in 1..Len(job.log) |->
                  <<job.log[i].kind, job.log[i].repo, job.log[i].pr>>]

\* C29: fetch_all_metrics makes its paginated fetches one after another in
\* this order: the repository list; the pull requests of each active
\* repository (not archived, not a fork, pushed to on or after since_date),
\* one fetch each; the reviews of each pull request kept; the commits of
\* each active repository, one fetch each.  No pull request or commit
\* fetch is made for any other repository.
C29_FetchOrder ==
    LET repos_part == <<<<"repos", "", "">>>>
        prs_part == [i \in 1..Len(ActiveNames) |-> <<"prs", ActiveNames[i], "">>]
        reviews_part ==
            [i \in 1..Len(job.all_prs) |->
               <<"reviews", DictGet(job.all_prs[i], "_repo").s,
                 DictGet(job.all_prs[i], "number").s>>]
        commits_part ==
            [i \in 1..Len(ActiveNames) |-> <<"commits", ActiveNames[i], "">>]
    IN FetchesMade =
         CASE job.pc = "repos" -> <<>>
           [] job.pc = "prs" \/ (job.pc # "repos" /\ ActiveNames = <<>>)
                -> repos_part
           [] job.pc = "reviews" /\ ActiveNames # <<>> -> repos_part \o prs_part
           [] job.pc = "commits" /\ ActiveNames # <<>>
                -> repos_part \o prs_part \o reviews_part
           [] OTHER -> repos_part \o prs_part \o reviews_part \o commits_part

\* A run over two active repositories and a fork has returned, having
\* fetched the reviews of two pull requests.
C29_Witness ==
    /\ job.pc = "returned"
    /\ Len(ActiveNames) = 2 /\ Len(job.world.repos) = 3
    /\ Len(Queries("prs")) = 2 /\ Len(Queries("commits")) = 2
    /\ Len(Queries("reviews")) = 2

\* The records of the result process_paginated_data has returned.
Returned == Summarised(job.acc)

\* C24: in every result of process_paginated_data the developers are in
\* the order of non-increasing dxi_score, the daily items in the order of
\* strictly increasing date, one item for each date that has statistics,
\* and summary.avg_dxi_score is the mean of the developers' dxi_score, or 0
\* when there is no developer.
C24_ResultOrdered ==
    job.pc = "returned"
    => LET developers == Returned.developers
           daily == Returned.daily
           n == Len(developers)
       IN /\ job.ret = ResultDict(Returned)
          /\ \A i \in 1..(n - 1) :
                developers[i].dxi_score >= developers[i + 1].dxi_score
          /\ {developers[i].developer : i \in 1..n}
                = {job.acc.devs[i].login : i \in 1..Len(job.acc.devs)}
          /\ n = Len(job.acc.devs)
          /\ \A i \in 1..(Len(daily) - 1) : daily[i].date < daily[i + 1].date
          /\ {daily[i].date : i \in 1..Len(daily)} = DOMAIN job.acc.daily
          /\ DictGet(DictGet(job.ret, "summary"), "avg_dxi_score")
                = IF n = 0 THEN PyInt(0)
                  ELSE PyFrac(Frac(SumSeq([i \in 1..n |-> developers[i].dxi_score]),
                                   10 * n))

\* A result of three developers, the best of them the last to be seen,
\* over more than one day.
C24_Witness ==
    /\ job.pc = "returned" /\ job.ret # empty_response
    /\ Len(Returned.developers) = 3
    /\ Returned.developers[1].developer = job.acc.devs[3].login
    /\ Returned.developers[1].dxi_score > Returned.developers[3].dxi_score
    /\ Len(Returned.daily) >= 2

-----------------------------------------------------------------------------
(* Properties of the scoring engine *)

Dimensions == {"review_speed", "cycle_time", "pr_size", "review_coverage",
               "commit_frequency"}

\* C17: each of the five dimension scores that
\* calculate_developer_dimension_scores and calculate_dimension_scores
\* return lies in [0, 100] (0..1000 tenths), whatever the raw input.
C17_ScoresWithinRange ==
    /\ scoring.pc \in {"dxi", "team", "scored"}
          => \A k \in Dimensions :
                /\ scoring.dimension_scores[k] >= 0
                /\ scoring.dimension_scores[k] <= 1000
    /\ scoring.pc = "scored"
          => \A k \in Dimensions :
                /\ scoring.team_dimension_scores[k] >= 0
                /\ scoring.team_dimension_scores[k] <= 1000

\* The input has no negative average and no negative count.
NothingNegative(metrics) ==
    /\ metrics.avg_review_time_hours = <<>> \/ metrics.avg_review_time_hours[1] >= 0
    /\ metrics.avg_cycle_time_hours = <<>> \/ metrics.avg_cycle_time_hours[1] >= 0
    /\ metrics.lines_added >= 0 /\ metrics.lines_deleted >= 0
    /\ metrics.prs_opened >= 0 /\ metrics.reviews_given >= 0
    /\ metrics.commits >= 0

\* C18: dxi_score is 0.25 review_speed + 0.25 cycle_time + 0.20 pr_size +
\* 0.15 review_coverage + 0.15 commit_frequency of the scores
\* calculate_developer_dimension_scores returns for the same input, rounded
\* to one decimal.  It is stated for the inputs without negative values,
\* the ones the aggregation can produce.
C18_CompositeFromDimensions ==
    (scoring.pc \in {"team", "scored"} /\ NothingNegative(scoring.metrics))
    => scoring.dxi_score =
          RoundTenths(Frac(25 * scoring.dimension_scores.review_speed
                           + 25 * scoring.dimension_scores.cycle_time
                           + 20 * scoring.dimension_scores.pr_size
                           + 15 * scoring.dimension_scores.review_coverage
                           + 15 * scoring.dimension_scores.commit_frequency,
                           1000))

\* The mean of the values that are not None.
MeanOfGiven(values) ==
    LET given(v) == v # <<>>
        valid == SelectSeq(values, given)
        total == FracSum(valid)
    IN Frac(total[1], total[2] * Len(valid))

\* The team score the claim gives for the developers' averages: the neutral
\* 50 when none of them is given, else the transform of their mean.
TeamTimeScore(values, lo, span) ==
    IF \A i \in 1..Len(values) : values[i] = <<>> THEN 500
    ELSE RoundTenths(Clamp(MeanOfGiven(values), lo, span))

\* C25: calculate_dimension_scores returns 50 for the five dimensions of a
\* team without developers; for a team with developers, review_speed
\* (cycle_time) is 50 when no developer has an avg_review_time_hours
\* (avg_cycle_time_hours) that is not null, and is otherwise the clamped
\* transform of the mean of those that are not null.  It is stated for the
\* inputs without negative values, the ones the aggregation can produce.
C25_TeamScores ==
    (scoring.pc = "scored" /\ NothingNegative(scoring.metrics))
    => LET developers == scoring.developers
           n == Len(developers)
           team == scoring.team_dimension_scores
       IN IF n = 0
          THEN \A k \in Dimensions : team[k] = 500
          ELSE /\ team.review_speed
                    = TeamTimeScore([i \in 1..n |->
                                       developers[i].avg_review_time_hours],
                                    2, 22)
               /\ team.cycle_time
                    = TeamTimeScore([i \in 1..n |->
                                       developers[i].avg_cycle_time_hours],
                                    8, 64)

\* The developer's scores for the metrics with the averages replaced.
ScoresAt(review_time, cycle_time) ==
    calculate_developer_dimension_scores(
        [scoring.metrics EXCEPT !.avg_review_time_hours = review_time,
                                !.avg_cycle_time_hours = cycle_time])

\* C26: for a developer the defaults of 24 and 48 hours stand in only for
\* an average that is null: an avg_cycle_time_hours t that is not null, 0
\* included, gives the cycle_time score clamp(100 - (t - 8) * 100 / 64),
\* an avg_review_time_hours t that is not null gives the review_speed score
\* clamp(100 - (t - 2) * 100 / 22) (each to one decimal), and a longer time
\* never gives the higher score.  It is stated for the inputs without
\* negative values, the ones the aggregation can produce.
C26_DefaultsOnlyForNull ==
    (scoring.pc \in {"dxi", "team", "scored"} /\ NothingNegative(scoring.metrics))
    => LET review_time == scoring.metrics.avg_review_time_hours
           cycle_time == scoring.metrics.avg_cycle_time_hours
       IN /\ cycle_time # <<>>
               => /\ scoring.dimension_scores.cycle_time
                        = RoundTenths(Clamp(cycle_time, 8, 64))
                  /\ \A t \in CycleTimes \ {<<>>} :
                        FracLess(cycle_time, t)
                        => ScoresAt(review_time, t).cycle_time
                              <= scoring.dimension_scores.cycle_time
          /\ review_time # <<>>
               => /\ scoring.dimension_scores.review_speed
                        = RoundTenths(Clamp(review_time, 2, 22))
                  /\ \A t \in ReviewTimes \ {<<>>} :
                        FracLess(review_time, t)
                        => ScoresAt(t, cycle_time).review_speed
                              <= scoring.dimension_scores.review_speed

-----------------------------------------------------------------------------
(* Properties of the sprint calendar *)

\* C19: get_all_sprints(limit) returns limit entries, each starting
\* sprint_duration_days before the one ahead of it in the list, of which
\* the first and no other is flagged is_current; also when the clock
\* advances between the date computations.
C19_SprintListing ==
    sprintList.pc = "returned"
    => /\ Len(sprintList.sprints) = sprintList.limit
       /\ \A k \in 1..(Len(sprintList.sprints) - 1) :
             sprintList.sprints[k + 1].start
                = sprintList.sprints[k].start - sprint_duration_days
       /\ \A k \in 1..Len(sprintList.sprints) :
             sprintList.sprints[k].is_current <=> k = 1

-----------------------------------------------------------------------------
(* Properties of the coordinator *)

\* The step is one of caller c's.
StepOf(c) == req'[c] # req[c] \/ caller'[c] # caller[c]

\* The payload the store holds for a key: the one last saved in this run,
\* else the one an earlier run left.
StoredPayload(k) == IF k \in DOMAIN lastSaved THEN lastSaved[k] ELSE OldPayload

\* The read of a get_metrics_for_sprint call without force_refresh runs.
MetricsReads(c) ==
    /\ req[c].fn = GetMetrics /\ ~req[c].force
    /\ req[c].pc = "read" /\ StepOf(c) /\ ~caller'[c].err

\* C4: cache hit.  When get_metrics_for_sprint runs without force_refresh
\* and its read finds an entry for the window, the call returns the stored
\* payload in that step, has run no fetch_all_metrics, and leaves every row
\* of the store (payload, created_at, updated_at) as it was.
C4_CacheHit ==
    [][\A c \in Callers :
         (MetricsReads(c) /\ KeyOf(req[c]) \in DOMAIN Rows)
         => /\ req'[c].pc = "done"
            /\ req'[c].ret = StoredPayload(KeyOf(req[c]))
            /\ req'[c].fetches = 0
            /\ tables' = tables]_vars

\* The server answered from an entry with developers that this run saved.
C4_Witness ==
    /\ req["c1"].pc = "done" /\ ~req["c1"].force
    /\ req["c1"].fetches = 0
    /\ req["c1"].ret = Runs[WorldA, <<1, 14>>].ret
    /\ K1 \in DOMAIN lastSaved

\* C5: miss or forced refresh.  A get_metrics_for_sprint call that is forced
\* or whose read finds no entry goes on to fetch; it calls save_sprint with
\* the key sprint_{start}_{end} and the fetched result after exactly one
\* fetch_all_metrics, and returns that result.  A later read without force
\* of a window whose save committed returns a payload equal to the one saved,
\* with no fetch.
C5_MissOrForcedRefresh ==
    [][\A c \in Callers :
         /\ (MetricsReads(c) /\ KeyOf(req[c]) \notin DOMAIN Rows)
                => req'[c].pc = "fetch"
         /\ (req[c].fn = GetMetrics /\ req[c].pc = "save" /\ StepOf(c))
                => /\ req[c].fetches = 1
                   /\ caller'[c].op = "save_sprint"
                   /\ caller'[c].key = <<"sprint", ToString(req[c].start),
                                         ToString(req[c].end)>>
                   /\ caller'[c].data = req[c].metrics
         /\ (req[c].fn = GetMetrics /\ req[c].pc = "saving"
                                    /\ req'[c].pc = "done")
                => /\ req'[c].ret = req[c].metrics
                   /\ req'[c].fetches = 1
         /\ (req'[c].fn = GetMetrics /\ req'[c].force /\ req[c] # req'[c]
                                     /\ req[c].pc \in {"idle", "done"})
                => req'[c].pc = "fetch"
         /\ (MetricsReads(c) /\ KeyOf(req[c]) \in DOMAIN lastSaved)
                => /\ req'[c].pc = "done"
                   /\ req'[c].ret = lastSaved[KeyOf(req[c])]
                   /\ req'[c].fetches = 0]_vars

\* The server, alone at work, fetched and saved a window with activity, and
\* its next call without force was answered from the store.
C5_Witness ==
    /\ req["c2"].pc = "idle"
    /\ req["c1"].pc = "done" /\ ~req["c1"].force
    /\ req["c1"].fetches = 0
    /\ K1 \in DOMAIN lastSaved
    /\ lastSaved[K1] = Runs[WorldA, <<1, 14>>].ret
    /\ req["c1"].ret = lastSaved[K1]

\* C6: the store is authoritative.  The payload of an existing entry changes
\* only in a step that commits the save of a forced call for that window.
C6_StoreAuthoritative ==
    [][\A k \in DOMAIN Rows :
         (k \in DOMAIN Rows' /\ Rows'[k].data_json # Rows[k].data_json)
         => \E c \in Callers :
               SaveCommits(c) /\ caller[c].key = k /\ req[c].force]_vars

\* C8: an entry is created or replaced only by a fetch that succeeded.  No
\* save of get_metrics_for_sprint commits the result of a fetch_all_metrics
\* run in which every query failed.
C8_FailedFetchNotStored ==
    [][\A c \in Callers :
         (SaveCommits(c) /\ req[c].fn = GetMetrics)
         => ~EveryQueryFailed(req[c].log)]_vars

\* The keys of a developer record as the spec lists them, less the scores.
DeveloperKeys ==
    {"developer", "commits", "prs_opened", "prs_merged", "reviews_given",
     "lines_added", "lines_deleted", "avg_review_time_hours",
     "avg_cycle_time_hours", "dxi_score"}

\* C30: every developer record of a payload that a save of
\* get_metrics_for_sprint commits has its counts, averages and dxi_score and
\* its dimension_scores, so that the payload read back is not one that
\* ensure_dimension_scores has to complete.
C30_PersistedWithDimensionScores ==
    [][\A c \in Callers :
         (SaveCommits(c) /\ req[c].fn = GetMetrics)
         => LET stored == SelectPayload(Rows', caller[c].key)
                developers == DictGet(stored, "developers").kids
            IN /\ \A i \in 1..Len(developers) :
                     \A k \in DeveloperKeys \cup {"dimension_scores"} :
                        HasKey(developers[i], k)
               /\ ~Backfills(stored)]_vars

-----------------------------------------------------------------------------
(* Properties of overlapping forced refreshes *)

\* C21: of two get_metrics_for_sprint calls with force_refresh=true for one
\* window, each runs its own fetch_all_metrics; a save that commits leaves
\* the window's row with the result of its call, no other step touches the
\* rows, and once both calls have returned the row holds the result whose
\* save committed last.
C21_LastSaveWins ==
    [][/\ \A c \in Callers :
            /\ (req[c].pc = "save" /\ StepOf(c)) => req[c].fetches = 1
            /\ req'[c].pc = "done" => req'[c].fetches = 1
            /\ SaveCommits(c)
                  => /\ KeyOf(req[c]) \in DOMAIN Rows'
                     /\ SelectPayload(Rows', KeyOf(req[c])) = req[c].metrics
                     /\ lastSaved'[KeyOf(req[c])] = req[c].metrics
                     /\ DOMAIN Rows' = DOMAIN Rows \cup {KeyOf(req[c])}
       /\ (\A c \in Callers : ~SaveCommits(c)) => tables' = tables
       /\ (\A c \in Callers : req'[c].pc = "done")
            => \A k \in DOMAIN lastSaved' :
                  /\ k \in DOMAIN Rows'
                  /\ SelectPayload(Rows', k) = lastSaved'[k]]_vars

\* Both calls have returned with different results, both saves committed,
\* and the row holds the result of c1, whose save_sprint began before c2's
\* and committed after it.
C21_Witness ==
    /\ \A c \in Callers :
          /\ req[c].pc = "done" /\ req[c].force /\ req[c].fetches = 1
          /\ caller[c].op = "save_sprint" /\ ~caller[c].err
    /\ req["c1"].metrics # req["c2"].metrics
    /\ caller["c1"].now < caller["c2"].now
    /\ SelectPayload(Rows, K1) = req["c1"].metrics
    /\ Rows[K1].updated_at = caller["c1"].now

-----------------------------------------------------------------------------
(* Properties of the store's connections *)

\* No store operation of caller c is in progress.
AtRest(c) == caller[c].pc \in {"start", "idle", "ret", "raised", "crashed"}

\* C22: connection per operation.  A caller holds a connection only inside
\* the with statement of the operation that opened it, an operation opens
\* at most one, and whichever way the operation ends (return, swallowed
\* storage or decoding error, error leaving _init_db) the connection is
\* closed: a caller with no operation in progress holds none.
C22_ConnectionPerOperation ==
    \A c \in Callers :
        /\ caller[c].conn = IF caller[c].pc \in {"with", "finally"} THEN 1 ELSE 0
        /\ caller[c].opened <= 1
        /\ AtRest(c) => caller[c].conn = 0

\* One process left _init_db by the error of its rename, the other had a
\* statement of get_sprint fail; each had opened a connection and holds
\* none.
C22_Witness ==
    /\ caller["c1"].pc = "crashed" /\ caller["c1"].op = "_init_db"
    /\ caller["c1"].opened = 1 /\ caller["c1"].conn = 0
    /\ caller["c2"].pc = "ret" /\ caller["c2"].op = "get_sprint"
    /\ caller["c2"].err /\ caller["c2"].opened = 1 /\ caller["c2"].conn = 0

-----------------------------------------------------------------------------
(* Properties of the population tool's workers *)

\* Worker c's fetch_sprint has returned "fetched" and its save committed.
FetchedAndSaved(c) ==
    /\ req[c].pc = "done" /\ req[c].fn = FetchSprint /\ req[c].fetches = 1
    /\ caller[c].op = "save_sprint" /\ ~caller[c].err

\* C27: workers of the population tool that run fetch_sprint for distinct
\* windows do not interfere.  A save that commits creates or replaces the
\* row of its own window and leaves every other row as it was, and when
\* all workers have finished, each window that was fetched and saved has
\* its row, holding the result fetched for that window.
C27_WorkersIndependent ==
    [][/\ \A c \in Callers :
            SaveCommits(c)
            => /\ caller[c].key = get_sprint_key(WindowOfWorker(c)[1],
                                                 WindowOfWorker(c)[2])
               /\ DOMAIN Rows' = DOMAIN Rows \cup {caller[c].key}
               /\ \A k \in DOMAIN Rows \ {caller[c].key} : Rows'[k] = Rows[k]
       /\ (\A c \in Callers : req'[c].pc = "done")
            => \A c \in Callers :
                  FetchedAndSaved(c)'
                  => LET k == get_sprint_key(WindowOfWorker(c)[1],
                                             WindowOfWorker(c)[2])
                     IN /\ k \in DOMAIN Rows'
                        /\ SelectPayload(Rows', k) = req'[c].metrics]_vars

\* Both workers fetched results with developers and saved them, c2 having
\* called save_sprint after c1, and each window's row holds its result.
C27_Witness ==
    /\ \A c \in Callers : FetchedAndSaved(c)
    /\ req["c1"].metrics = Runs[WorldA, <<1, 14>>].ret
    /\ req["c2"].metrics = Runs[WorldA, <<15, 28>>].ret
    /\ req["c1"].metrics # req["c2"].metrics
    /\ caller["c1"].now < caller["c2"].now
    /\ SelectPayload(Rows, get_sprint_key(1, 14)) = req["c1"].metrics
    /\ SelectPayload(Rows, get_sprint_key(15, 28)) = req["c2"].metrics

-----------------------------------------------------------------------------
(* Properties of get_sprint_dates *)

\* C31: the window get_sprint_dates(i) returns starts a whole number of
\* sprints from the anchor and ends sprint_duration_days - 1 days later;
\* for index 0 it contains the current date, also before the anchor; and
\* it shares no day with the window of another index computed at the same
\* instant.
C31_SprintWindows ==
    [][Len(sprintList'.sprints) = Len(sprintList.sprints) + 1
       => LET today == sprintList.today
              i == sprintList.i
              e == sprintList'.sprints[Len(sprintList'.sprints)]
          IN /\ \E k \in (0 - MaxLimit - 2)..(MaxDay + 2) :
                   e.start = sprint_start_date + k * sprint_duration_days
             /\ e.end = e.start + sprint_duration_days - 1
             /\ e.start <= e.end
             /\ i = 0 => (e.start <= today /\ today <= e.end)
             /\ \A j \in (0 - MaxLimit)..0 :
                   j # i => LET other == get_sprint_dates(today, j)
                            IN other[2] < e.start \/ e.end < other[1]]_vars

\* Before the anchor date: the current sprint listed contains the day and
\* the sprint before it ends the day before it starts.
C31_Witness ==
    /\ sprintList.pc = "returned" /\ sprintList.today < sprint_start_date
    /\ Len(sprintList.sprints) >= 2
    /\ sprintList.sprints[1].start <= sprintList.today
    /\ sprintList.today <= sprintList.sprints[1].end
    /\ sprintList.sprints[2].end + 1 = sprintList.sprints[1].start

-----------------------------------------------------------------------------
(* Properties of the counts process_paginated_data returns *)

\* The reviews of the pull requests handed to process_paginated_data that
\* carry a submission time on or before until_date, sit on a pull request
\* created in the window, and are by the login: <<pull request, review>>.
ReviewsBy(login) ==
    {ij \in UNION {{<<i, j>> : j \in 1..Len(PrReviews(job.all_prs[i]))} :
                     i \in 1..Len(job.all_prs)} :
       LET pr == job.all_prs[ij[1]]
           review == PrReviews(pr)[ij[2]]
           submitted_at == DictGet(review, "submittedAt")
       IN /\ CreatedInWindow(pr)
          /\ LoginOf(DictGet(review, "author")) = login
          /\ submitted_at # PyNone
          /\ DateOf(submitted_at.s) <= job.until_date}

\* The logins of the reviews handed to process_paginated_data.
Reviewers ==
    UNION {{LoginOf(DictGet(PrReviews(job.all_prs[i])[j], "author")) :
              j \in 1..Len(PrReviews(job.all_prs[i]))} :
             i \in 1..Len(job.all_prs)}

\* C32: for every reviewer that is not a bot, reviews_given in the result
\* is the number of that reviewer's reviews submitted on or before
\* until_date on pull requests created within the window, whoever the author
\* of the pull request is: a developer, a bot, or nobody.
C32_ReviewsCountedOnAnyPr ==
    job.pc = "returned"
    => \A login \in Reviewers :
          ~LeftOut(login)
          => DevStat(job.acc, login, "reviews_given")
                = Cardinality(ReviewsBy(login))

\* A step of the commit loop that took a commit.
CommitTaken == job.pc = "commit_loop" /\ job.todo # <<>> /\ job' # job

\* The day lies in the window of the call.
InWindow(date) == job.since_date <= date /\ date <= job.until_date

\* C33: a pull request adds one to the prs_opened of its author, unless
\* that is a bot or nobody, exactly when the date of its createdAt lies in
\* [since_date, until_date], and a commit adds one to the commits of its
\* author likewise exactly when its date lies there; the bucket of that day
\* is raised with it.  A pull request or a commit dated before since_date
\* or after until_date leaves every developer's counts and lines and every
\* day as they were, and its reviews are not gone through.
C33_CountedExactlyInWindow ==
    [][(CommitTaken
          => LET commit == Head(job.todo)
                 login == CommitLogin(commit)
                 date == DayAt(DictGet(commit, "author"), "date")
             IN /\ (InWindow(date) /\ ~LeftOut(login))
                   => /\ DevStat(job'.acc, login, "commits")
                            = DevStat(job.acc, login, "commits") + 1
                      /\ DayStat(job'.acc, date, "commits")
                            = DayStat(job.acc, date, "commits") + 1
                /\ ~InWindow(date) => job'.acc = job.acc)
       /\ (PrTaken
          => LET pr == Head(job.todo)
                 login == LoginOf(DictGet(pr, "author"))
                 date == DayAt(pr, "createdAt")
             IN /\ (InWindow(date) /\ ~LeftOut(login))
                   => /\ DevStat(job'.acc, login, "prs_opened")
                            = DevStat(job.acc, login, "prs_opened") + 1
                      /\ DayStat(job'.acc, date, "prs_opened")
                            = DayStat(job.acc, date, "prs_opened") + 1
                /\ ~InWindow(date)
                   => job'.acc = job.acc /\ job'.pc = "pr_loop")]_vars

\* A call has returned that was handed a developer's commit from before
\* the window and one from inside it, and a developer's pull request from
\* before the window and one from inside it: the two inside are counted.
C33_Witness ==
    /\ job.pc = "returned"
    /\ \E i, j \in 1..Len(job.all_commits) :
          LET early == job.all_commits[i]
              inside == job.all_commits[j]
          IN /\ DayAt(DictGet(early, "author"), "date") < job.since_date
             /\ ~LeftOut(CommitLogin(early))
             /\ InWindow(DayAt(DictGet(inside, "author"), "date"))
             /\ DevStat(job.acc, CommitLogin(inside), "commits") = 1
             /\ DevStat(job.acc, CommitLogin(early), "commits") = 0
    /\ \E i, j \in 1..Len(job.all_prs) :
          LET early == job.all_prs[i]
              inside == job.all_prs[j]
          IN /\ DayAt(early, "createdAt") < job.since_date
             /\ ~LeftOut(LoginOf(DictGet(early, "author")))
             /\ InWindow(DayAt(inside, "createdAt"))
             /\ DevStat(job.acc, LoginOf(DictGet(inside, "author")), "prs_opened") = 1
             /\ DevStat(job.acc, LoginOf(DictGet(early, "author")), "prs_opened") = 0

\* The four counts and the summary total of each.
CountFields ==
    {<<"commits", "total_commits">>, <<"prs_opened", "total_prs">>,
     <<"prs_merged", "total_merged">>, <<"reviews_given", "total_reviews">>}

\* C35: in every result of process_paginated_data, for each of commits,
\* prs_opened, prs_merged and reviews_given, the sum of the field over the
\* daily list equals its sum over the developers list, which equals the
\* total of the summary (total_commits, total_prs, total_merged,
\* total_reviews).
C35_CountsConserved ==
    job.pc = "returned"
    => \A f \in CountFields :
          LET over_days == SumSeq([i \in 1..Len(Returned.daily) |->
                                     Returned.daily[i][f[1]]])
              over_devs == SumSeq([i \in 1..Len(Returned.developers) |->
                                     Returned.developers[i][f[1]]])
          IN over_days = over_devs /\ over_devs = Returned.summary[f[2]]

\* A result with commits, pull requests, a merge and reviews in it, over
\* more than one developer and more than one day.
C35_Witness ==
    /\ job.pc = "returned"
    /\ \A f \in CountFields : Returned.summary[f[2]] > 0
    /\ Len(Returned.developers) >= 2 /\ Len(Returned.daily) >= 2

\* C36: in every result of process_paginated_data a developer's
\* avg_cycle_time_hours is null exactly when the developer's prs_merged is
\* 0, one cycle time being recorded with each merge counted, and prs_merged
\* is at most prs_opened.
C36_CycleTimePerMerge ==
    job.pc = "returned"
    => /\ \A i \in 1..Len(job.acc.devs) :
             Len(job.acc.devs[i].cycle_times) = job.acc.devs[i].prs_merged
       /\ \A i \in 1..Len(Returned.developers) :
             LET d == Returned.developers[i]
             IN /\ (d.avg_cycle_time_hours = <<>>) <=> (d.prs_merged = 0)
                /\ d.prs_merged <= d.prs_opened

\* A result with a developer whose merges were counted in part, one pull
\* request having been merged after the window, and a developer without a
\* merge.
C36_Witness ==
    /\ job.pc = "returned"
    /\ \E i, j \in 1..Len(Returned.developers) :
          LET d == Returned.developers[i]
              e == Returned.developers[j]
          IN /\ 0 < d.prs_merged /\ d.prs_merged < d.prs_opened
             /\ d.avg_cycle_time_hours # <<>>
             /\ e.prs_merged = 0 /\ e.avg_cycle_time_hours = <<>>

\* C37: every date of the daily list of a result of
\* process_paginated_data(prs, commits, start, end) lies in [start, end],
\* whatever the input, reviews and merges timestamped before the creation
\* of their pull request included.
C37_DailyWithinWindow ==
    job.pc = "returned"
    => \A i \in 1..Len(Returned.daily) : InWindow(Returned.daily[i].date)

-----------------------------------------------------------------------------
(* Properties of get_store_stats *)

\* c's call of get_store_stats returns in this step.
StatsReturned(c) ==
    /\ caller[c].pc = "idle"
    /\ caller'[c].pc = "ret" /\ caller'[c].op = "get_store_stats"

\* C34: get_store_stats returns a record whose entry_count is the number
\* of keys the table holds (those saved and not deleted since), whose
\* entries are one item for each of these keys in the order of updated_at
\* descending, and whose total_bytes is the sum of the lengths of the
\* stored payloads, 0 for an empty table; it returns a record of this
\* shape also when the storage engine fails.
C34_StatsShape ==
    [][\A c \in Callers :
         StatsReturned(c)
         => LET stats == caller'[c].ret
                entries == DictGet(stats, "entries").kids
                key_of(e) == [i \in 1..Len(DictGet(e, "sprint_key").kids) |->
                                DictGet(e, "sprint_key").kids[i].s]
                at(e) == ParseInt(DictGet(e, "updated_at").s)
            IN /\ HasKey(stats, "entry_count") /\ HasKey(stats, "total_bytes")
               /\ HasKey(stats, "entries")
               /\ "sprints" \in DOMAIN tables
                  => /\ DictGet(stats, "entry_count")
                           = PyInt(Cardinality(DOMAIN Rows))
                     /\ DictGet(stats, "total_bytes")
                           = PyInt(SumBytes(Rows, DOMAIN Rows))
                     /\ Len(entries) = Cardinality(DOMAIN Rows)
                     /\ {key_of(entries[i]) : i \in 1..Len(entries)} = DOMAIN Rows
                     /\ \A i, j \in 1..Len(entries) :
                           i < j => at(entries[i]) >= at(entries[j])]_vars

-----------------------------------------------------------------------------
(* Properties of the timestamps of a row under concurrent saves *)

\* C38: under any interleaving of save_sprint calls on one key, each of
\* which reads the clock before it opens its connection, every row has
\* created_at <= updated_at, and the updated_at of a row does not decrease
\* from one committed save to the next.
C38_TimestampsOrdered ==
    [][/\ \A k \in DOMAIN Rows' : Rows'[k].created_at <= Rows'[k].updated_at
       /\ \A c \in Callers :
             (SaveCommits(c) /\ caller[c].key \in DOMAIN Rows)
             => Rows'[caller[c].key].updated_at >= Rows[caller[c].key].updated_at
      ]_vars

====
